---- MODULE Spec2Model ----
(***************************************************************************)
(* Resume / cover-letter generators and the ATS keyword scorer of          *)
(* models/resume_generator_enhanced.py and models/cover_letter_enhanced.py.*)
(*                                                                         *)
(* A text is a sequence of pieces.  A piece is one character (a string of  *)
(* length 1, or one of the named non-ASCII characters) or a                *)
(* fragment of a string literal of the source; such a fragment holds no    *)
(* line break and no leading, trailing or doubled white space, so the      *)
(* white-space operations of the code act on it as on one non-space        *)
(* character, while its length is the length of the literal.  Text that    *)
(* the code tokenizes, lower-cases or strips of periods is always spelled  *)
(* character by character.                                                 *)
(***************************************************************************)
EXTENDS Integers, Sequences, FiniteSets, TLC

VARIABLES
  hf_token,          \* self.hf_token of both generators (same environment variable)
  requests,          \* TRUE iff the module-level `requests` import succeeded
  pc,                \* "idle" | "remote" (request in flight) | "done" | "raised"
  op,                \* "none" | "summary" | "cover" | "ats": the entry point running
  args,              \* the arguments of the running call
  template,          \* template_summary / template_letter of the running call
  posts,             \* number of requests.post calls issued by the running call
  response,          \* what the remote call produced (NoResponse before it ends)
  result,            \* the value returned to the caller (NoResult before return)
  locals,            \* locals of ats_optimization_score at its return
  calls,             \* per session: the call it runs on the cached generators
  frames,            \* per activation: template_summary / template_letter
  session_state      \* per session: st.session_state.experience / .education

vars == <<hf_token, requests, pc, op, args, template, posts, response, result, locals,
          calls, frames, session_state>>

\* the state of the sessions of the application
app_vars == <<calls, frames, session_state>>

\* the state of the single call
call_vars == <<pc, op, args, template, posts, response, result, locals>>

-----------------------------------------------------------------------------
(* Characters *)

RSQUO == "<U+2019>"
NDASH == "<U+2013>"
MDASH == "<U+2014>"

\* DOUBLE-STRUCK CAPITAL C: an upper-case letter (str.isupper) that str.lower
\* leaves as it is, as it does every upper-case letter without a lower-case form
DSCAP == "<U+2102>"

LowerSeq ==
  <<"a", "b", "c", "d", "e", "f", "g", "h", "i", "j", "k", "l", "m",
    "n", "o", "p", "q", "r", "s", "t", "u", "v", "w", "x", "y", "z">>

UpperSeq ==
  <<"A", "B", "C", "D", "E", "F", "G", "H", "I", "J", "K", "L", "M",
    "N", "O", "P", "Q", "R", "S", "T", "U", "V", "W", "X", "Y", "Z">>

LowerLetters == {LowerSeq[i] : i \in DOMAIN LowerSeq}

UpperLetters == {UpperSeq[i] : i \in DOMAIN UpperSeq}

Digits == {"0", "1", "2", "3", "4", "5", "6", "7", "8", "9"}

\* str.isspace / the regex class \s, on the characters the model draws from
Whitespace == {" ", "\t", "\n", "\r"}

\* the line boundaries of str.splitlines among those characters
LineBreaks == {"\n", "\r"}

IsSpace(c) == c \in Whitespace

\* the regex class [A-Za-z]
IsLetter(c) == c \in LowerLetters \cup UpperLetters

\* str.isupper on one character
IsUpper(c) == c \in UpperLetters \cup {DSCAP}

\* str.isalnum
IsAlnum(c) == IsLetter(c) \/ c \in Digits \/ c = DSCAP

\* the regex class \w
IsWordChar(c) == IsAlnum(c) \/ c = "_"

\* the regex class [A-Za-z\-\+\.]
IsTokChar(c) == IsLetter(c) \/ c \in {"-", "+", "."}

\* str.lower on one character
LowerChar(c) ==
  IF c \in UpperLetters
    THEN LowerSeq[CHOOSE i \in DOMAIN UpperSeq : UpperSeq[i] = c]
    ELSE c

\* length of a piece in characters
PieceLen(p) == IF p \in {RSQUO, NDASH, MDASH, DSCAP} THEN 1 ELSE Len(p)

-----------------------------------------------------------------------------
(* Sequence helpers (no deep recursion: the texts are long) *)

Indices(s) == [i \in 1..Len(s) |-> i]

Range(s) == {s[i] : i \in DOMAIN s}

\* f[lo] + ... + f[hi]
RECURSIVE SumRange(_, _, _)
SumRange(f, lo, hi) ==
  IF lo > hi THEN 0
  ELSE IF lo = hi THEN f[lo]
  ELSE LET mid == (lo + hi) \div 2
       IN  SumRange(f, lo, mid) + SumRange(f, mid + 1, hi)

\* len(text)
TextLen(text) == SumRange([i \in DOMAIN text |-> PieceLen(text[i])], 1, Len(text))

\* the characters of a token as one string
RECURSIVE Str(_)
Str(s) ==
  IF Len(s) = 0 THEN ""
  ELSE IF Len(s) = 1 THEN s[1]
  ELSE LET mid == Len(s) \div 2
       IN  Str(SubSeq(s, 1, mid)) \o Str(SubSeq(s, mid + 1, Len(s)))

\* s repeated n times
Rep(s, n) == <<>> \o [i \in 1..(n * Len(s)) |-> s[((i - 1) % Len(s)) + 1]]

\* concatenation of a sequence of sequences
RECURSIVE Concat(_)
Concat(ss) ==
  IF Len(ss) = 0 THEN <<>>
  ELSE IF Len(ss) = 1 THEN ss[1]
  ELSE LET mid == Len(ss) \div 2
       IN  Concat(SubSeq(ss, 1, mid)) \o Concat(SubSeq(ss, mid + 1, Len(ss)))

\* sep.join(items)
Join(sep, items) ==
  IF Len(items) = 0 THEN <<>>
  ELSE Concat([i \in 1..(2 * Len(items) - 1) |->
                 IF i % 2 = 1 THEN items[(i + 1) \div 2] ELSE sep])

-----------------------------------------------------------------------------
(* String operations of the source *)

\* str.strip()
strip(text) ==
  LET keep == SelectSeq(Indices(text), LAMBDA i : ~IsSpace(text[i]))
  IN  IF Len(keep) = 0 THEN <<>> ELSE SubSeq(text, keep[1], keep[Len(keep)])

\* removes one trailing period only
rstrip_one_dot(text) ==
  IF Len(text) > 0 /\ text[Len(text)] = "." THEN SubSeq(text, 1, Len(text) - 1) ELSE text

\* str.rstrip('.')
rstrip_dot(text) ==
  LET keep == SelectSeq(Indices(text), LAMBDA i : text[i] # ".")
  IN  IF Len(keep) = 0 THEN <<>> ELSE SubSeq(text, 1, keep[Len(keep)])

\* str.lower()
lower(text) == <<>> \o [i \in DOMAIN text |-> LowerChar(text[i])]

\* self._whitespace_re.sub(" ", text): every maximal run of \s becomes one space
_whitespace_sub(text) ==
  LET kept == SelectSeq(Indices(text),
                        LAMBDA i : ~IsSpace(text[i]) \/ i = 1 \/ ~IsSpace(text[i - 1]))
  IN  <<>> \o [k \in DOMAIN kept |-> IF IsSpace(text[kept[k]]) THEN " " ELSE text[kept[k]]]

\* str.splitlines()
splitlines(text) ==
  LET n      == Len(text)
      breaks == SelectSeq(Indices(text), LAMBDA i : text[i] \in LineBreaks)
      \* "\r\n" is one boundary
      ends   == SelectSeq(breaks, LAMBDA i : ~(text[i] = "\r" /\ i < n /\ text[i + 1] = "\n"))
      ne     == Len(ends)
      first(k) == IF k = 1 THEN 1 ELSE ends[k - 1] + 1
      last(k)  == IF k <= ne
                    THEN IF text[ends[k]] = "\n" /\ ends[k] > 1 /\ text[ends[k] - 1] = "\r"
                           THEN ends[k] - 2 ELSE ends[k] - 1
                    ELSE n
      nlines == IF n = 0 THEN 0
                ELSE IF ne > 0 /\ ends[ne] = n THEN ne ELSE ne + 1
  IN  [k \in 1..nlines |-> SubSeq(text, first(k), last(k))]

-----------------------------------------------------------------------------
(* Text normalization and keyword extraction *)

\* a normalization that does not trim
_normalize_text_untrimmed(text) ==
  LET lowered  == lower(text)
      replaced == <<>> \o [i \in DOMAIN lowered |->
                     IF lowered[i] = RSQUO THEN "'"
                     ELSE IF lowered[i] \in {NDASH, MDASH} THEN "-"
                     ELSE lowered[i]]
  IN  _whitespace_sub(replaced)

\* ResumeGeneratorEnhanced._normalize_text
_normalize_text(text) ==
  LET lowered  == lower(text)
      replaced == <<>> \o [i \in DOMAIN lowered |->
                     IF lowered[i] = RSQUO THEN "'"
                     ELSE IF lowered[i] \in {NDASH, MDASH} THEN "-"
                     ELSE lowered[i]]
  IN  strip(_whitespace_sub(replaced))

\* ResumeGeneratorEnhanced._cleanup_spaces
_cleanup_spaces(text) == strip(_whitespace_sub(text))

\* self._word_re.findall(text), _word_re = [A-Za-z][A-Za-z\-\+\.]{1,}
\* Scanning left to right, a match starts at the first letter of a maximal run
\* of token characters that has a token character after it, and takes the
\* rest of the run.
_word_re_findall(text) ==
  LET n        == Len(text)
      isTok(i) == i >= 1 /\ i <= n /\ IsTokChar(text[i])
      runs     == SelectSeq(Indices(text), LAMBDA i : isTok(i) /\ ~isTok(i - 1))
      runEnd(a) == CHOOSE b \in a..n :
                     /\ ~isTok(b + 1)
                     /\ \A k \in a..b : isTok(k)
      hasMatch(a) == \E p \in a..(runEnd(a) - 1) : IsLetter(text[p])
      matchStart(a) == CHOOSE p \in a..(runEnd(a) - 1) :
                         /\ IsLetter(text[p])
                         /\ \A k \in a..(p - 1) : ~IsLetter(text[k])
      matched  == SelectSeq(runs, hasMatch)
  IN  <<>> \o [k \in DOMAIN matched |->
                 SubSeq(text, matchStart(matched[k]), runEnd(matched[k]))]

\* the stopword set of _extract_keywords
stop ==
  {"and", "the", "for", "with", "from", "that", "this", "have", "has", "had", "are", "was",
   "were", "been", "to", "of", "in", "on", "at", "as", "by", "or", "an", "a", "it", "is",
   "be", "will", "can", "may", "your", "you", "we", "our", "their", "they", "them", "i",
   "my", "me", "us", "role", "job", "work", "team", "ability", "skills", "experience",
   "years", "including"}

\* the argument of counts.most_common(...) in _extract_keywords
MaxKeywords == 80

\* a ranking that ignores the counts: the distinct tokens as they first occur
most_common_by_position(tokens, limit) ==
  LET firsts == SelectSeq(Indices(tokens),
                          LAMBDA i : \A j \in 1..(i - 1) : tokens[j] # tokens[i])
      size   == IF Len(firsts) < limit THEN Len(firsts) ELSE limit
  IN  <<>> \o [r \in 1..size |-> tokens[firsts[r]]]

\* Counter(tokens).most_common(limit): by decreasing count, ties in order of
\* first occurrence, at most `limit` entries
most_common(tokens, limit) ==
  LET firsts  == SelectSeq(Indices(tokens),
                           LAMBDA i : \A j \in 1..(i - 1) : tokens[j] # tokens[i])
      count(i) == Cardinality({j \in DOMAIN tokens : tokens[j] = tokens[i]})
      counts  == <<>> \o [k \in DOMAIN firsts |-> count(firsts[k])]
      before(k) == Cardinality({j \in DOMAIN firsts :
                                  \/ counts[j] > counts[k]
                                  \/ counts[j] = counts[k] /\ j < k})
      rank    == <<>> \o [k \in DOMAIN firsts |-> before(k)]
      size    == IF Len(firsts) < limit THEN Len(firsts) ELSE limit
  IN  <<>> \o [r \in 1..size |-> tokens[firsts[CHOOSE k \in DOMAIN firsts : rank[k] = r - 1]]]

\* an extraction that keeps short tokens and stopwords
_extract_keywords_unfiltered(text) ==
  LET found    == _word_re_findall(text)
      tokens   == <<>> \o [k \in DOMAIN found |-> lower(found[k])]
  IN  most_common(tokens, MaxKeywords)

\* ResumeGeneratorEnhanced._extract_keywords
_extract_keywords(text) ==
  LET found    == _word_re_findall(text)
      tokens   == <<>> \o [k \in DOMAIN found |-> lower(found[k])]
      filtered == SelectSeq(tokens, LAMBDA t : Len(t) >= 3 /\ Str(t) \notin stop)
  IN  most_common(filtered, MaxKeywords)

-----------------------------------------------------------------------------
(* Python values *)

\* Optional[str]: None, or a text
None == <<>>

Some(text) == <<text>>

\* truth value of an Optional[str]
IsTruthy(opt) == opt # None /\ Len(opt[1]) > 0

\* str(n) for an integer n >= 0
RECURSIVE IntStr(_)
IntStr(n) ==
  LET digit == <<"0", "1", "2", "3", "4", "5", "6", "7", "8", "9">>[(n % 10) + 1]
  IN  IF n < 10 THEN <<digit>> ELSE IntStr(n \div 10) \o <<digit>>

\* a string literal of the source that holds no white space at its ends
Lit(fragment) == <<fragment>>

-----------------------------------------------------------------------------
(* ATS scoring *)

\* code point order of the characters a keyword can hold: + - . a..z
Ord(c) ==
  IF c = "+" THEN 43
  ELSE IF c = "-" THEN 45
  ELSE IF c = "." THEN 46
  ELSE 96 + (CHOOSE i \in DOMAIN LowerSeq : LowerSeq[i] = c)

\* u < v for Python strings
StrLess(u, v) ==
  \E i \in 1..Len(v) :
    /\ \A j \in 1..(i - 1) : j <= Len(u) /\ u[j] = v[j]
    /\ \/ i > Len(u)
       \/ i <= Len(u) /\ u[i] # v[i] /\ Ord(u[i]) < Ord(v[i])

\* the same strings from the greatest to the least
sorted_descending(S) ==
  LET ranked == {<<w, Cardinality({v \in S : StrLess(w, v)})>> : w \in S}
  IN  <<>> \o [r \in 1..Cardinality(S) |-> (CHOOSE p \in ranked : p[2] = r - 1)[1]]

\* sorted(S) for a set of strings
sorted(S) ==
  LET ranked == {<<w, Cardinality({v \in S : StrLess(v, w)})>> : w \in S}
  IN  <<>> \o [r \in 1..Cardinality(S) |-> (CHOOSE p \in ranked : p[2] = r - 1)[1]]

\* s[:n]
Prefix(s, n) == SubSeq(s, 1, IF Len(s) < n THEN Len(s) ELSE n)

\* int(x): the fraction is dropped
RoundDown(num, den) == num \div den

\* int(round(x)) for x = num / den >= 0: Python rounds halves to even
RoundHalfEven(num, den) ==
  LET q == num \div den
      r == num % den
  IN  IF 2 * r < den THEN q
      ELSE IF 2 * r > den THEN q + 1
      ELSE IF q % 2 = 0 THEN q ELSE q + 1

\* re.search(r"\bPATTERN\b", text) for a literal pattern of word characters and spaces
search_word(pattern, text) ==
  LET n == Len(text)
      m == Len(pattern)
  IN  \E i \in 1..(n - m + 1) :
        /\ i = 1 \/ ~IsWordChar(text[i - 1])
        /\ i + m > n \/ ~IsWordChar(text[i + m])
        /\ Str(SubSeq(text, i, i + m - 1)) = pattern

\* ResumeGeneratorEnhanced._count_long_lines
_count_long_lines(text, threshold) ==
  LET lines == splitlines(text)
  IN  Cardinality({k \in DOMAIN lines : Len(lines[k]) > threshold})

\* a density check that every text passes
_symbol_density_ignored(text, limitNum, limitDen) == TRUE

\* ResumeGeneratorEnhanced._symbol_density < limit, limit = limitNum / limitDen
\* (symbols / max(1, len(text)) compared without floating point)
_symbol_density_below(text, limitNum, limitDen) ==
  LET symbols == Cardinality({i \in DOMAIN text : ~IsAlnum(text[i]) /\ ~IsSpace(text[i])})
      size    == IF Len(text) < 1 THEN 1 ELSE Len(text)
  IN  IF Len(text) = 0 THEN TRUE
      ELSE symbols * limitDen < limitNum * size

\* score = int(round(70 * match_ratio))
KeywordPoints == 70

\* structure_points += 10 / 8 / 6 / 6
SectionPoints == 10

LineLengthPoints == 8

SymbolPoints == 6

WordCountPoints == 6

\* self._count_long_lines(resume_text, threshold=120)
LongLineThreshold == 120

\* 250 <= word_count <= 950
MinWords == 250

MaxWords == 950

\* min(100, score + structure_points)
MaxScore == 100

\* matched[:30], missing[:20]
MatchedCap == 30

MissingCap == 20

\* symbol_density < 0.06
DensityLimitNum == 6

DensityLimitDen == 100

NoKeywordsNote == <<"Job description is empty or not readable; cannot compute ATS match.">>

DefaultNote == <<"Looks reasonably ATS-friendly. Improve by adding missing key terms naturally.">>

\* the section_checks dict of ats_optimization_score, in its insertion order
section_checks(resume_text_clean) ==
  << <<"experience", \/ search_word("experience", resume_text_clean)
                     \/ search_word("employment", resume_text_clean)
                     \/ search_word("work history", resume_text_clean)>>,
     <<"education",  \/ search_word("education", resume_text_clean)
                     \/ search_word("qualifications", resume_text_clean)>>,
     <<"skills",     \/ search_word("skills", resume_text_clean)
                     \/ search_word("competencies", resume_text_clean)
                     \/ search_word("core skills", resume_text_clean)>> >>

\* matched = sorted(set(resume_keywords).intersection(set(jd_keywords)))
matched_keywords(resume_keywords, jd_keywords) ==
  sorted(Range(resume_keywords) \cap Range(jd_keywords))

\* the difference taken the wrong way round
missing_keywords_swapped(resume_keywords, jd_keywords) ==
  sorted(Range(resume_keywords) \ Range(jd_keywords))

\* missing = sorted(set(jd_keywords).difference(set(resume_keywords)))
missing_keywords(resume_keywords, jd_keywords) ==
  sorted(Range(jd_keywords) \ Range(resume_keywords))

\* an early return that is never taken
no_jd_keywords_never(jd_keywords) == FALSE

\* `if not jd_keywords:`
no_jd_keywords(jd_keywords) == Len(jd_keywords) = 0

\* a scoring rule that takes points away for long lines instead of withholding them
line_length_points_penalty(long_lines) ==
  IF long_lines = 0 THEN LineLengthPoints ELSE 0 - LineLengthPoints

\* `if long_lines == 0: structure_points += 8`
line_length_points(long_lines) == IF long_lines = 0 THEN LineLengthPoints ELSE 0

\* ResumeGeneratorEnhanced.ats_optimization_score: its locals at the return
ats_locals(resume_text, job_description) ==
  LET resume_text_clean == <<>> \o _normalize_text(resume_text)
      jd_clean          == <<>> \o _normalize_text(job_description)
      resume_keywords   == <<>> \o _extract_keywords(resume_text_clean)
      jd_keywords       == <<>> \o _extract_keywords(jd_clean)
      matched           == matched_keywords(resume_keywords, jd_keywords)
      missing           == missing_keywords(resume_keywords, jd_keywords)
      jd_set_size       == Cardinality(Range(jd_keywords))
      base              == RoundHalfEven(KeywordPoints * Len(matched),
                                         IF jd_set_size < 1 THEN 1 ELSE jd_set_size)
      checks            == section_checks(resume_text_clean)
      missing_sections  == SelectSeq(checks, LAMBDA c : ~c[2])
      sections_note     == <<"Missing common section headings:", " ">>
                           \o Join(<<",", " ">>,
                                   [k \in DOMAIN missing_sections |->
                                      <<missing_sections[k][1]>>])
                           \o <<".">>
      long_lines        == _count_long_lines(resume_text, LongLineThreshold)
      lines_note        == <<"Found", " ">> \o IntStr(long_lines)
                           \o <<" ", "very long lines (>120 chars). Consider wrapping text.">>
      density_ok        == _symbol_density_below(resume_text, DensityLimitNum, DensityLimitDen)
      density_note      == <<"High symbol density detected. Avoid heavy tables/graphics for ATS-friendly resumes.">>
      word_count        == Len(_word_re_findall(resume_text))
      words_note        == <<"Resume word count is", " ">> \o IntStr(word_count)
                           \o <<".", " ", "Typical ranges are ~250", NDASH,
                                "950 depending on seniority.">>
      structure_points  == (IF Len(missing_sections) = 0 THEN SectionPoints ELSE 0)
                           + line_length_points(long_lines)
                           + (IF density_ok THEN SymbolPoints ELSE 0)
                           + (IF MinWords <= word_count /\ word_count <= MaxWords
                                THEN WordCountPoints ELSE 0)
      notes             == (IF Len(missing_sections) = 0 THEN <<>> ELSE <<sections_note>>)
                           \o (IF long_lines = 0 THEN <<>> ELSE <<lines_note>>)
                           \o (IF density_ok THEN <<>> ELSE <<density_note>>)
                           \o (IF MinWords <= word_count /\ word_count <= MaxWords
                                 THEN <<>> ELSE <<words_note>>)
      total             == base + structure_points
  IN  IF no_jd_keywords(jd_keywords)
        THEN [early            |-> TRUE,
              resume_text_clean |-> resume_text_clean,
              jd_clean         |-> jd_clean,
              jd_keywords      |-> jd_keywords,
              resume_keywords  |-> resume_keywords,
              matched          |-> <<>>,
              missing          |-> <<>>,
              base             |-> 0,
              structure_points |-> 0,
              score            |-> 0,
              notes            |-> <<NoKeywordsNote>>]
        ELSE [early            |-> FALSE,
              resume_text_clean |-> resume_text_clean,
              jd_clean         |-> jd_clean,
              jd_keywords      |-> jd_keywords,
              resume_keywords  |-> resume_keywords,
              matched          |-> matched,
              missing          |-> missing,
              base             |-> base,
              structure_points |-> structure_points,
              score            |-> IF total > MaxScore THEN MaxScore ELSE total,
              notes            |-> IF Len(notes) = 0 THEN <<DefaultNote>> ELSE notes]

\* a scorer that withholds the score when the instance holds a token
ats_call_keyed(self, library, resume_text, job_description) ==
  IF self.hf_token = ""
    THEN ats_locals(resume_text, job_description)
    ELSE [ats_locals(resume_text, job_description) EXCEPT !.score = 0]

\* ats_optimization_score called on an instance `self` while the module-level
\* import is `library`: the method reads only self._normalize_text,
\* self._extract_keywords, self._word_re and the two text helpers, none of which
\* depends on the token, the model, the URL or the timeout of the instance
ats_call(self, library, resume_text, job_description) ==
  ats_locals(resume_text, job_description)

\* a result whose notes come in the opposite order
ATSScoreResultNotesReversed(l) ==
  [score            |-> l.score,
   matched_keywords |-> Prefix(l.matched, MatchedCap),
   missing_keywords |-> Prefix(l.missing, MissingCap),
   notes            |-> [k \in 1..Len(l.notes) |-> l.notes[Len(l.notes) + 1 - k]]]

\* the ATSScoreResult returned by ats_optimization_score
ATSScoreResult(l) ==
  [score            |-> l.score,
   matched_keywords |-> Prefix(l.matched, MatchedCap),
   missing_keywords |-> Prefix(l.missing, MissingCap),
   notes            |-> l.notes]

-----------------------------------------------------------------------------
(* Template summary *)

\* a clause that is written only for three or more achievements
achievement_line_from_three(achievements) ==
  IF Len(achievements) > 2
    THEN <<" ", "Proven track record including:", " ">>
         \o rstrip_dot(achievements[1]) \o <<".">>
    ELSE <<>>

\* achievement_line of _generate_summary_template
achievement_line(achievements) ==
  IF Len(achievements) > 0
    THEN <<" ", "Proven track record including:", " ">>
         \o rstrip_dot(achievements[1]) \o <<".">>
    ELSE <<>>

\* the comma-joined items without a cap
uncapped_join(items, cap) == strip(Join(<<",", " ">>, items))

\* ", ".join(items[:cap]).strip()
capped_join(items, cap) == strip(Join(<<",", " ">>, Prefix(items, cap)))

\* the hint terms when a keyword is compared with the skills as they are written
jd_hint_terms_exact(jd_keywords, core_skills) ==
  LET skill_set == {core_skills[i] : i \in DOMAIN core_skills}
  IN  Prefix(SelectSeq(jd_keywords, LAMBDA k : k \notin skill_set), 4)

\* jd_hint_terms of _generate_summary_template
jd_hint_terms(jd_keywords, core_skills) ==
  LET skill_set == {lower(core_skills[i]) : i \in DOMAIN core_skills}
  IN  Prefix(SelectSeq(jd_keywords, LAMBDA k : lower(k) \notin skill_set), 4)

\* a title that falls back to the profile when the target title is blank
title_unless_blank(profile, target_title) ==
  IF IsTruthy(target_title) /\ Len(strip(target_title[1])) > 0
    THEN strip(target_title[1])
    ELSE strip(profile.title)

\* title of _generate_summary_template
title(profile, target_title) ==
  IF IsTruthy(target_title) THEN strip(target_title[1])
  ELSE strip(profile.title)

\* ResumeGeneratorEnhanced._generate_summary_template
_generate_summary_template(profile, target_title, job_description) ==
  LET core_skills == capped_join(profile.core_skills, 8)
      tools       == capped_join(profile.tools, 6)
      industries  == capped_join(profile.industries, 4)
      jd_keywords == IF IsTruthy(job_description)
                       THEN _extract_keywords(_normalize_text(job_description[1]))
                       ELSE <<>>
      hint_terms  == jd_hint_terms(jd_keywords, profile.core_skills)
      jd_hint     == IF Len(hint_terms) > 0
                       THEN <<" ", "Experienced in", " ">>
                            \o Join(<<",", " ">>, hint_terms) \o <<".">>
                       ELSE <<>>
      parts ==
        << title(profile, target_title) \o <<" ", "with", " ">>
             \o IntStr(profile.years_experience)
             \o Lit("+ years of experience delivering measurable results."),
           IF Len(core_skills) > 0
             THEN <<"Skilled in", " ">> \o core_skills \o <<".">> ELSE <<>>,
           IF Len(tools) > 0
             THEN <<"Tools:", " ">> \o tools \o <<".">> ELSE <<>>,
           IF Len(industries) > 0
             THEN <<"Industry exposure:", " ">> \o industries \o <<".">> ELSE <<>>,
           achievement_line(profile.achievements),
           jd_hint,
           Lit("Strong communicator with a focus on quality, timeliness, and stakeholder collaboration.") >>
      summary == strip(Join(<<" ">>, SelectSeq(parts, LAMBDA part : Len(part) > 0)))
  IN  _cleanup_spaces(summary)

-----------------------------------------------------------------------------
(* Template cover letter *)

\* CoverLetterGeneratorEnhanced._cleanup_spaces_preserve_paragraphs
_cleanup_spaces_preserve_paragraphs(text) ==
  LET split   == splitlines(text)
      lines   == [k \in DOMAIN split |-> strip(_whitespace_sub(split[k]))]
      cleaned == <<>> \o Join(<<"\n">>, lines)
      \* re.sub(r"\n{3,}", "\n\n", cleaned): of a run of newlines keep the first two
      reduced == SelectSeq(Indices(cleaned),
                           LAMBDA i : ~(/\ cleaned[i] = "\n"
                                        /\ i > 2
                                        /\ cleaned[i - 1] = "\n"
                                        /\ cleaned[i - 2] = "\n"))
  IN  strip([k \in DOMAIN reduced |-> cleaned[reduced[k]]])

\* a choice that compares the tone as it was given
tone_line_exact(tone) ==
  IF Str(tone) \in {"warm", "friendly"}
    THEN <<"I", RSQUO, "d welcome the chance to bring my energy and commitment to your team.">>
  ELSE IF Str(tone) \in {"confident", "assertive"}
    THEN Lit("I am confident I can deliver immediate value and measurable outcomes in this position.")
  ELSE Lit("I would welcome the opportunity to support your team and deliver measurable results.")

\* the tone_line branch of _generate_cover_letter_template
tone_line(tone) ==
  IF Str(lower(tone)) \in {"warm", "friendly"}
    THEN <<"I", RSQUO, "d welcome the chance to bring my energy and commitment to your team.">>
  ELSE IF Str(lower(tone)) \in {"confident", "assertive"}
    THEN Lit("I am confident I can deliver immediate value and measurable outcomes in this position.")
  ELSE Lit("I would welcome the opportunity to support your team and deliver measurable results.")

\* a motivation paragraph without the fallback sentence
motivation_without_fallback(data) == strip(data.motivation)

\* motivation of _generate_cover_letter_template
motivation(data) ==
  IF Len(strip(data.motivation)) > 0 THEN strip(data.motivation)
  ELSE <<"I", RSQUO, "m excited about the opportunity to contribute to", " ">>
       \o data.company_name \o <<" ", "in this role.">>

\* a hint that is also written for a job description of 40 characters
jd_hint_from_forty(job_description) ==
  IF IsTruthy(job_description) /\ TextLen(strip(job_description[1])) >= 40
    THEN <<" ", "I have reviewed the role requirements and can align my experience to the key priorities outlined.">>
    ELSE <<>>

\* jd_hint of _generate_cover_letter_template
jd_hint(job_description) ==
  IF IsTruthy(job_description) /\ TextLen(strip(job_description[1])) > 40
    THEN <<" ", "I have reviewed the role requirements and can align my experience to the key priorities outlined.">>
    ELSE <<>>

\* CoverLetterGeneratorEnhanced._generate_cover_letter_template
_generate_cover_letter_template(data, job_description, tone) ==
  LET salutation == IF Len(strip(data.hiring_manager_name)) > 0
                      THEN <<"Dear", " ">> \o strip(data.hiring_manager_name) \o <<",">>
                      ELSE Lit("Dear Hiring Manager,")
      skills == strip(Join(<<",", " ">>, Prefix(data.key_skills, 10)))
      tools  == strip(Join(<<",", " ">>, Prefix(data.tools, 8)))
      ach    == IF Len(data.key_achievements) = 0 THEN <<>>
                ELSE IF Len(data.key_achievements) = 1
                  THEN <<"One highlight includes", " ">>
                       \o rstrip_dot(data.key_achievements[1]) \o <<".">>
                ELSE <<"Key highlights include", " ">>
                     \o rstrip_dot(data.key_achievements[1])
                     \o <<" ", "and", " ">>
                     \o rstrip_dot(data.key_achievements[2]) \o <<".">>
      body ==
        salutation \o <<"\n", "\n">>
        \o <<"I am writing to apply for the", " ">> \o data.target_role
        \o <<" ", "position at", " ">> \o data.company_name \o <<".">> \o jd_hint(job_description)
        \o <<" ", "With", " ">> \o IntStr(data.years_experience)
        \o <<"+ years of experience, I have developed strong capabilities in", " ">>
        \o (IF Len(skills) > 0 THEN skills ELSE Lit("delivering high-quality results"))
        \o <<".">> \o <<"\n", "\n">>
        \o motivation(data) \o <<"\n", "\n">>
        \o <<"In previous roles, I have consistently supported performance and outcomes through quality delivery, collaboration, and data-informed decision-making.", " ">>
        \o ach \o (IF Len(ach) > 0 THEN <<" ">> ELSE <<>>)
        \o (IF Len(tools) > 0
              THEN <<"I am proficient with tools such as", " ">> \o tools \o <<".">>
              ELSE <<>>)
        \o <<"\n", "\n">>
        \o tone_line(tone)
        \o <<" ", "Thank you for considering my application. I look forward to the possibility of discussing how my experience and skills can support", " ">>
        \o data.company_name \o <<".">> \o <<"\n", "\n">>
        \o <<"Sincerely,", "\n">> \o data.full_name \o <<"\n">>
  IN  _cleanup_spaces_preserve_paragraphs(body)

-----------------------------------------------------------------------------
(* The remote call: requests.post(...), raise_for_status(), resp.json() *)

\* JSON values as Python objects
Absent == [type |-> "absent"]

JNull == [type |-> "null"]

JStr(text) == [type |-> "str", text |-> text]

JNum(n) == [type |-> "num", n |-> n]

JList(items) == [type |-> "list", items |-> items]

JDict(generated_text, summary_text, error) ==
  [type |-> "dict", generated_text |-> generated_text,
   summary_text |-> summary_text, error |-> error]

\* bool(v)
PyTruthy(v) ==
  IF v.type = "str" THEN Len(v.text) > 0
  ELSE IF v.type = "num" THEN v.n # 0
  ELSE IF v.type = "list" THEN Len(v.items) > 0
  ELSE IF v.type = "dict" THEN {v.generated_text, v.summary_text, v.error} # {Absent}
  ELSE FALSE

\* a or b
PyOr(a, b) == IF PyTruthy(a) THEN a ELSE b

\* d.get(key)
dict_get(d, key) == IF d[key] = Absent THEN JNull ELSE d[key]

\* how a function ends
Returned(value) == [tag |-> "return", value |-> value]

Raised(exc) == [tag |-> "raise", exc |-> exc]

\* the classes `except Exception` catches, among those the remote path can raise
ExceptionClasses ==
  {"ConnectionError", "Timeout", "HTTPError", "JSONDecodeError", "RuntimeError",
   "AttributeError", "TypeError"}

\* an except clause that names only the error the helper raises itself
CaughtOnlyRuntimeError(exc) == exc = "RuntimeError"

\* `except Exception:` in generate_summary and generate_cover_letter
CaughtByExcept(exc) == exc \in ExceptionClasses

\* ResumeGeneratorEnhanced._generate_summary_hf_api, from the outcome of requests.post on
_generate_summary_hf_api(outcome) ==
  IF outcome.kind = "post_raises" THEN Raised(outcome.exc)
  ELSE IF outcome.kind = "status_error" THEN Raised("HTTPError")
  ELSE IF outcome.kind = "bad_json" THEN Raised("JSONDecodeError")
  ELSE LET data == outcome.data
       IN  IF data.type = "list" /\ Len(data.items) > 0 /\ data.items[1].type = "dict"
             THEN Returned(PyOr(PyOr(dict_get(data.items[1], "generated_text"),
                                     dict_get(data.items[1], "summary_text")),
                                JStr(<<>>)))
           ELSE IF data.type = "dict" /\ data.error # Absent
             THEN Raised("RuntimeError")
           ELSE Returned(JStr(<<>>))

\* CoverLetterGeneratorEnhanced._generate_cover_letter_hf_api, likewise
_generate_cover_letter_hf_api(outcome) ==
  IF outcome.kind = "post_raises" THEN Raised(outcome.exc)
  ELSE IF outcome.kind = "status_error" THEN Raised("HTTPError")
  ELSE IF outcome.kind = "bad_json" THEN Raised("JSONDecodeError")
  ELSE LET output == outcome.data
       IN  IF output.type = "list" /\ Len(output.items) > 0 /\ output.items[1].type = "dict"
             THEN Returned(PyOr(PyOr(dict_get(output.items[1], "generated_text"),
                                     dict_get(output.items[1], "summary_text")),
                                JStr(<<>>)))
           ELSE IF output.type = "dict" /\ output.error # Absent
             THEN Raised("RuntimeError")
           ELSE Returned(JStr(<<>>))

-----------------------------------------------------------------------------
(* generate_summary and generate_cover_letter *)

SummaryResult(summary, source) == [summary |-> summary, source |-> source]

CoverLetterResult(cover_letter, source) == [cover_letter |-> cover_letter, source |-> source]

\* len(api_summary.strip()) >= 40
MinSummaryLen == 40

\* len(api_letter.strip()) >= 200
MinLetterLen == 200

\* the test without its check of the HTTP client library
UsesRemoteIgnoringLibrary(use_hf_api_if_available) ==
  /\ use_hf_api_if_available
  /\ hf_token # ""

\* the test before any request in generate_summary / generate_cover_letter
UsesRemote(use_hf_api_if_available) ==
  /\ use_hf_api_if_available
  /\ ~(hf_token = "" \/ ~requests)

\* the length test with > in place of >=
AcceptSummaryStrict(api_summary) ==
  IF ~PyTruthy(api_summary) THEN Returned(FALSE)
  ELSE IF api_summary.type # "str" THEN Raised("AttributeError")
  ELSE Returned(TextLen(strip(api_summary.text)) > MinSummaryLen)

\* `api_summary and len(api_summary.strip()) >= 40`
AcceptSummary(api_summary) ==
  IF ~PyTruthy(api_summary) THEN Returned(FALSE)
  ELSE IF api_summary.type # "str" THEN Raised("AttributeError")
  ELSE Returned(TextLen(strip(api_summary.text)) >= MinSummaryLen)

\* the length test on the untrimmed text
AcceptLetterUntrimmed(api_letter) ==
  IF ~PyTruthy(api_letter) THEN Returned(FALSE)
  ELSE IF api_letter.type # "str" THEN Raised("AttributeError")
  ELSE Returned(TextLen(api_letter.text) >= MinLetterLen)

\* `api_letter and len(api_letter.strip()) >= 200`
AcceptLetter(api_letter) ==
  IF ~PyTruthy(api_letter) THEN Returned(FALSE)
  ELSE IF api_letter.type # "str" THEN Raised("AttributeError")
  ELSE Returned(TextLen(strip(api_letter.text)) >= MinLetterLen)

\* the try statement of generate_summary, from the end of the request on
summary_try(template_summary, outcome) ==
  LET api_summary == _generate_summary_hf_api(outcome)
      accept      == AcceptSummary(api_summary.value)
      body        == IF api_summary.tag = "raise" THEN api_summary
                     ELSE IF accept.tag = "raise" THEN accept
                     ELSE IF accept.value
                       THEN Returned(SummaryResult(strip(api_summary.value.text),
                                                   "huggingface_api"))
                     ELSE Returned(SummaryResult(template_summary, "template"))
  IN  IF body.tag = "raise" /\ CaughtByExcept(body.exc)
        THEN Returned(SummaryResult(template_summary, "template"))
        ELSE body

\* the try statement with the remote tag on the too-short branch
cover_letter_try_mistagged(template_letter, outcome) ==
  LET api_letter == _generate_cover_letter_hf_api(outcome)
      accept     == AcceptLetter(api_letter.value)
      body       == IF api_letter.tag = "raise" THEN api_letter
                    ELSE IF accept.tag = "raise" THEN accept
                    ELSE IF accept.value
                      THEN Returned(CoverLetterResult(strip(api_letter.value.text),
                                                      "huggingface_api"))
                    ELSE Returned(CoverLetterResult(template_letter, "huggingface_api"))
  IN  IF body.tag = "raise" /\ CaughtByExcept(body.exc)
        THEN Returned(CoverLetterResult(template_letter, "template"))
        ELSE body

\* the try statement of generate_cover_letter, from the end of the request on
cover_letter_try(template_letter, outcome) ==
  LET api_letter == _generate_cover_letter_hf_api(outcome)
      accept     == AcceptLetter(api_letter.value)
      body       == IF api_letter.tag = "raise" THEN api_letter
                    ELSE IF accept.tag = "raise" THEN accept
                    ELSE IF accept.value
                      THEN Returned(CoverLetterResult(strip(api_letter.value.text),
                                                      "huggingface_api"))
                    ELSE Returned(CoverLetterResult(template_letter, "template"))
  IN  IF body.tag = "raise" /\ CaughtByExcept(body.exc)
        THEN Returned(CoverLetterResult(template_letter, "template"))
        ELSE body

-----------------------------------------------------------------------------
(* Inputs of the generators *)

txt_sql ==
  <<"S", "Q", "L">>

txt_power_bi ==
  <<"P", "o", "w", "e", "r", " ", "B", "I">>

txt_python ==
  <<"p", "y", "t", "h", "o", "n", ".">>

txt_excel ==
  <<"E", "x", "c", "e", "l">>

txt_humanitarian ==
  <<"H", "u", "m", "a", "n", "i", "t", "a", "r", "i", "a", "n">>

txt_led_audits ==
  <<"L", "e", "d", " ", "d", "a", "t", "a", " ", "q", "u", "a", "l", "i", "t", "y", " ",
    "a", "u", "d", "i", "t", "s", ".">>

txt_cut_costs ==
  <<"c", "u", "t", " ", "r", "e", "p", "o", "r", "t", "i", "n", "g", " ", "t", "i", "m",
    "e", " ", "b", "y", " ", "3", "5", "%", ".", ".">>

txt_built_dashboards ==
  <<"B", "u", "i", "l", "t", " ", "d", "a", "s", "h", "b", "o", "a", "r", "d", "s">>

txt_name ==
  <<"C", "h", "a", "r", "l", "e", "s", " ", "E", "x", "a", "m", "p", "l", "e">>

txt_title ==
  <<" ", "M", "E", "L", " ", "M", "a", "n", "a", "g", "e", "r">>

txt_target_title ==
  <<"D", "a", "t", "a", " ", "L", "e", "a", "d">>

txt_role ==
  <<"M", "&", "E", " ", "M", "a", "n", "a", "g", "e", "r">>

txt_company ==
  <<"E", "x", "a", "m", "p", "l", "e", " ", "N", "G", "O">>

txt_manager ==
  <<" ", "D", "r", ".", " ", "A", "d", "a", " ">>

txt_motivation ==
  <<"I", " ", "a", "d", "m", "i", "r", "e", " ", "y", "o", "u", "r", " ", " ", "l", "e",
    "a", "r", "n", "i", "n", "g", " ", "c", "u", "l", "t", "u", "r", "e", ".", "\n", "\n",
    "\n", "\n", "E", "v", "i", "d", "e", "n", "c", "e", " ", "m", "a", "t", "t", "e", "r",
    "s", ".", " ", "\r", "\n">>

txt_jd_short ==
  <<"N", "e", "e", "d", " ", "S", "Q", "L", ",", " ", "P", "y", "t", "h", "o", "n", " ",
    "a", "n", "d", " ", "P", "o", "w", "e", "r", "-", "B", "I", " ", "s", "k", "i", "l",
    "l", "s", ";", " ", "s", "q", "l">>

txt_jd_long ==
  <<"W", "e", " ", "n", "e", "e", "d", " ", "a", "n", " ", "a", "n", "a", "l", "y", "s",
    "t", " ", "w", "i", "t", "h", " ", "S", "Q", "L", " ", "a", "n", "d", " ", "K", "o",
    "b", "o", " ", "s", "u", "r", "v", "e", "y", " ", "e", "x", "p", "e", "r", "i", "e",
    "n", "c", "e", " ", "d", "a", "t", "a">>

\* 40 characters between its blank ends; its keywords are sql and python.
txt_jd_forty ==
  <<" ", " ", "S", "Q", "L", " ", "f", "o", "r", " ", "t", "h", "e", " ", "s", "q", "l",
    ",", " ", "a", "n", "d", " ", "p", "y", "t", "h", "o", "n", ".", " ", "o", "r", " ",
    "S", "Q", "L", ";", " ", "s", "q", "l", " ", "\n">>

txt_blank ==
  <<" ", "\n">>

txt_warm ==
  <<"W", "a", "r", "m">>

txt_confident ==
  <<"c", "o", "n", "f", "i", "d", "e", "n", "t">>

txt_professional ==
  <<"p", "r", "o", "f", "e", "s", "s", "i", "o", "n", "a", "l">>

txt_unknown ==
  <<"u", "n", "k", "n", "o", "w", "n", "-", "v", "a", "l", "u", "e">>

txt_friendly ==
  <<"f", "r", "i", "e", "n", "d", "l", "y">>

txt_assertive ==
  <<"a", "s", "s", "e", "r", "t", "i", "v", "e">>

\* lengths of the lists of the profile that exceeds every cap of the summary
ManySkills == 9
ManyTools == 7
ManyIndustries == 5

\* the i-th generated word: kaa, kab, ..., kaz, kba, ...
Word(i) == <<"k", LowerSeq[(((i - 1) \div 26) % 26) + 1], LowerSeq[((i - 1) % 26) + 1]>>

\* the words lo..hi as a list
WordList(lo, hi) == <<>> \o [k \in 1..(hi - lo + 1) |-> Word(lo + k - 1)]

\* CandidateProfile values: short lists, lists longer than the caps, and lists
\* whose only item is blank
Profiles ==
  {[full_name |-> txt_name, title |-> txt_title, years_experience |-> 12,
    core_skills |-> WordList(1, ManySkills),
    industries |-> WordList(41, 40 + ManyIndustries),
    achievements |-> <<txt_led_audits>>, tools |-> WordList(21, 20 + ManyTools),
    location |-> <<>>, email |-> <<>>, phone |-> <<>>, links |-> <<>>],
   [full_name |-> txt_name, title |-> txt_title, years_experience |-> 1,
    core_skills |-> << <<>> >>, industries |-> <<>>,
    achievements |-> <<>>, tools |-> <<txt_blank>>,
    location |-> <<>>, email |-> <<>>, phone |-> <<>>, links |-> <<>>]}
  \cup
  {[full_name |-> txt_name, title |-> txt_title, years_experience |-> 8,
    core_skills |-> skills, industries |-> <<txt_humanitarian>>,
    achievements |-> achievements, tools |-> <<txt_excel, txt_sql>>,
    location |-> <<>>, email |-> <<>>, phone |-> <<>>, links |-> <<>>] :
     skills \in {<<>>, <<txt_sql, txt_power_bi, txt_python>>},
     achievements \in {<<>>, <<txt_led_audits, txt_cut_costs>>}}

\* length of the key_skills list that exceeds the cap of the letter
ManyKeySkills == 11

\* CoverLetterInput values: without key skills, with more than the letter
\* lists, and with two
CoverLetterInputs ==
  {[full_name |-> txt_name, target_role |-> txt_role, company_name |-> txt_company,
    years_experience |-> 3, key_skills |-> key_skills,
    key_achievements |-> <<txt_led_audits>>, tools |-> <<txt_excel>>,
    motivation |-> <<>>, location |-> <<>>, email |-> <<>>, phone |-> <<>>,
    date_line |-> <<>>, hiring_manager_name |-> <<>>] :
     key_skills \in {<<>>, WordList(1, ManyKeySkills)}}
  \cup
  {[full_name |-> txt_name, target_role |-> txt_role, company_name |-> txt_company,
    years_experience |-> 8, key_skills |-> <<txt_sql, txt_power_bi>>,
    key_achievements |-> achievements, tools |-> <<txt_excel>>,
    motivation |-> supplied, location |-> <<>>, email |-> <<>>, phone |-> <<>>,
    date_line |-> <<>>, hiring_manager_name |-> manager] :
     achievements \in {<<>>, <<txt_led_audits>>, <<txt_led_audits, txt_cut_costs>>,
                       <<txt_cut_costs, txt_led_audits, txt_built_dashboards>>},
     supplied \in {<<>>, txt_motivation},
     manager \in {txt_manager}}

\* job_description arguments of the generators
JobDescriptions ==
  {None, Some(<<>>), Some(txt_jd_short), Some(txt_jd_long), Some(txt_jd_forty)}

\* target_title arguments
TargetTitles == {None, Some(<<>>), Some(txt_blank), Some(txt_target_title)}

\* tone arguments
Tones ==
  {txt_professional, txt_warm, txt_confident, txt_unknown, txt_friendly, txt_assertive, <<>>}

\* os.getenv(hf_token_env, "").strip()
Tokens == {"", "hf_secret"}

-----------------------------------------------------------------------------
(* Outcomes of the remote call *)

\* remote texts are drawn with trimmed lengths within LenSlack of a threshold
LenSlack == 1

\* a text of n characters; with `blank`, three of them are consecutive newlines
RemoteBody(n, blank) ==
  IF blank /\ n >= 5
    THEN <<"x">> \o <<"\n", "\n", "\n">> \o Rep(<<"y">>, n - 4)
    ELSE <<>> \o Rep(<<"x">>, n)

\* the text, or the text inside white space
Padded(text, pad) == IF pad THEN <<" ", "\t">> \o text \o <<"\n">> ELSE text

RemoteLengths ==
  {0, 10}
  \cup ((MinSummaryLen - LenSlack)..(MinSummaryLen + LenSlack))
  \cup ((MinLetterLen - LenSlack)..(MinLetterLen + LenSlack))

RemoteTexts ==
  {Padded(RemoteBody(n, blank), pad) :
     n \in RemoteLengths, blank \in BOOLEAN, pad \in BOOLEAN}

\* what requests.post / raise_for_status / resp.json can produce
RemoteOutcomes ==
  {[kind |-> "post_raises", exc |-> e] : e \in {"ConnectionError", "Timeout"}}
  \cup {[kind |-> "status_error"], [kind |-> "bad_json"]}
  \cup {[kind |-> "json", data |-> d] :
          d \in {JList(<<JDict(JStr(t), Absent, Absent)>>) : t \in RemoteTexts}
                \cup {JList(<<JDict(g, JStr(RemoteBody(MinLetterLen, FALSE)), Absent)>>) :
                        g \in {Absent, JStr(<<>>), JNum(0), JStr(<<"x">>)}}
                \cup {JList(<<JDict(v, Absent, Absent)>>) :
                        v \in {JNum(5), JNum(0), JNull, JList(<<JStr(<<"x">>)>>),
                               JDict(Absent, Absent, JStr(<<"x">>))}}
                \cup {JList(<<JDict(Absent, Absent, Absent)>>),
                      JList(<<>>),
                      JList(<<JStr(<<"x">>)>>),
                      JDict(Absent, Absent, JStr(<<"l", "o", "a", "d", "i", "n", "g">>)),
                      JDict(Absent, Absent, Absent),
                      JDict(JStr(<<"x">>), Absent, Absent),
                      JStr(<<"x">>),
                      JNum(5),
                      JNull}}

-----------------------------------------------------------------------------
(* Inputs of ats_optimization_score *)

\* number of two-letter filler words in the long resume
FillerWords == 245

\* longest job description drawn from job_vocabulary, in words
MaxJobWords == 4

txt_headings ==
  <<"E", "X", "P", "E", "R", "I", "E", "N", "C", "E", "\n", "E", "d", "u", "c", "a", "t",
    "i", "o", "n", "\n", "C", "o", "r", "e", " ", "S", "k", "i", "l", "l", "s", "\n">>

txt_keywords_line ==
  <<"S", "Q", "L", ",", " ", "p", "y", "t", "h", "o", "n", ";", " ", "K", "o", "b", "o",
    " ", "e", "x", "c", "e", "l", "\n">>

txt_one_keyword ==
  <<"W", "o", "r", "k", " ", "h", "i", "s", "t", "o", "r", "y", ":", " ", "s", "q", "l",
    " ", "r", "e", "p", "o", "r", "t", "i", "n", "g">>

txt_table ==
  <<"|", " ", "s", "q", "l", " ", "|", " ", "p", "y", "t", "h", "o", "n", " ", "|", "\n",
    "|", "-", "-", "-", "|", "-", "-", "-", "|", "\n">>

txt_stopwords ==
  <<"W", "e", " ", "a", "r", "e", " ", "t", "h", "e", " ", "t", "e", "a", "m", " ", "a",
    "n", "d", " ", "y", "o", "u">>

txt_short_tokens ==
  <<"g", "o", " ", "a", " ", "x", " ", "1", "2">>

\* words a job description is drawn from
job_vocabulary ==
  << <<"S", "Q", "L">>, <<"p", "y", "t", "h", "o", "n">>, <<"k", "o", "b", "o">>,
     <<"e", "x", "c", "e", "l">>, <<"p", "o", "w", "e", "r", "-", "b", "i">>,
     <<"s", "q", "l">> >>

\* a resume line with typographic characters, white space of several kinds and
\* an upper-case letter that has no lower-case form
txt_typographic ==
  <<" ", "\t", "D", "o", "n", RSQUO, "t", " ", " ", "2", "0", "1", "9", NDASH, "2", "0",
    "2", "1", " ", MDASH, "\t", " ", DSCAP, "+", "+", " ", "S", "Q", "L", " ", "\r", "\n">>

\* number of distinct three-letter words in the large resume
VocabularySize == 85

\* first word and number of words of the large job description
JobWordsFirst == 45

JobWordsCount == 65

\* the words lo..hi on one line
Words(lo, hi) == <<>> \o Join(<<" ">>, [k \in 1..(hi - lo + 1) |-> Word(lo + k - 1)])

\* more distinct keywords than _extract_keywords returns; the last word twice
txt_large_resume ==
  Words(1, VocabularySize) \o <<"\n">> \o Word(VocabularySize) \o <<"\n">>

\* more matched and more missing keywords than the result lists hold
txt_large_job == Words(JobWordsFirst, JobWordsFirst + JobWordsCount - 1)

\* number of spaces that follow the table row of the padded resume
PaddingSpaces == 20

\* a table row followed by spaces: few symbols for its length, many for the
\* length of its normalized form
txt_padded_table ==
  <<"s", "q", "l", "|", "p", "y", "t", "h", "o", "n">>
    \o Rep(<<" ">>, PaddingSpaces) \o <<"\n">>

\* a line of n characters
LongLine(n) == (<<>> \o Rep(<<"a">>, n)) \o <<"\n">>

\* resume_text arguments
ResumeTexts ==
  {<<>>,
   txt_one_keyword,
   txt_headings \o txt_keywords_line,
   txt_table,
   txt_headings \o txt_keywords_line \o (<<>> \o Rep(<<"a", "b", "\n">>, FillerWords)),
   txt_headings \o txt_keywords_line \o LongLine(LongLineThreshold),
   txt_keywords_line \o LongLine(LongLineThreshold + 1),
   LongLine(LongLineThreshold + 1),
   txt_typographic,
   txt_large_resume,
   txt_padded_table}

\* job_description arguments
JobTexts ==
  {Join(<<" ">>, Prefix(job_vocabulary, k)) : k \in 0..MaxJobWords}
  \cup {txt_blank, txt_stopwords, txt_short_tokens, txt_jd_short,
        txt_large_job, txt_large_resume}

-----------------------------------------------------------------------------
(* The program *)

NoArgs == [op |-> "none"]

NoResult == [kind |-> "none"]

NoResponse == [kind |-> "none"]

NoLocals == [kind |-> "none"]

NoTemplate == <<>>

\* the browser sessions that run the script of app.py
Sessions == {"s1", "s2"}

\* a session that runs no call
IdleCall ==
  [pc |-> "idle", op |-> "none", args |-> NoArgs, response |-> NoResponse,
   result |-> NoResult]

Init ==
  /\ hf_token \in Tokens
  /\ requests \in BOOLEAN
  /\ pc = "idle"
  /\ op = "none"
  /\ args = NoArgs
  /\ template = NoTemplate
  /\ posts = 0
  /\ response = NoResponse
  /\ result = NoResult
  /\ locals = NoLocals
  /\ calls = [s \in Sessions |-> IdleCall]
  /\ frames = [s \in Sessions |-> NoTemplate]
  /\ session_state = [s \in Sessions |-> [experience |-> <<>>, education |-> <<>>]]

\* generate_summary, up to its return or to the request of _generate_summary_hf_api
generate_summary(profile, job_description, target_title, use_hf_api_if_available) ==
  /\ pc = "idle"
  /\ op' = "summary"
  /\ args' = [profile |-> profile, job_description |-> job_description,
              target_title |-> target_title,
              use_hf_api_if_available |-> use_hf_api_if_available]
  /\ LET template_summary ==
           <<>> \o _generate_summary_template(profile, target_title, job_description)
     IN  /\ template' = template_summary
         /\ IF UsesRemote(use_hf_api_if_available)
              THEN /\ posts' = posts + 1
                   /\ pc' = "remote"
                   /\ result' = NoResult
              ELSE /\ posts' = posts
                   /\ pc' = "done"
                   /\ result' = SummaryResult(template_summary, "template")
  /\ UNCHANGED <<hf_token, requests, response, locals, app_vars>>

\* generate_cover_letter, up to its return or to the request of _generate_cover_letter_hf_api
generate_cover_letter(data, job_description, tone, use_hf_api_if_available) ==
  /\ pc = "idle"
  /\ op' = "cover"
  /\ args' = [data |-> data, job_description |-> job_description, tone |-> tone,
              use_hf_api_if_available |-> use_hf_api_if_available]
  /\ LET template_letter ==
           <<>> \o _generate_cover_letter_template(data, job_description, tone)
     IN  /\ template' = template_letter
         /\ IF UsesRemote(use_hf_api_if_available)
              THEN /\ posts' = posts + 1
                   /\ pc' = "remote"
                   /\ result' = NoResult
              ELSE /\ posts' = posts
                   /\ pc' = "done"
                   /\ result' = CoverLetterResult(template_letter, "template")
  /\ UNCHANGED <<hf_token, requests, response, locals, app_vars>>

\* the same step, sending the request once more after a failed call
remote_call_ends_retrying(outcome) ==
  /\ pc = "remote"
  /\ response' = outcome
  /\ LET end == IF op = "summary" THEN summary_try(template, outcome)
                ELSE cover_letter_try(template, outcome)
     IN  IF outcome.kind # "json" /\ posts < 2
           THEN pc' = "remote" /\ result' = NoResult /\ posts' = posts + 1
           ELSE /\ posts' = posts
                /\ IF end.tag = "return"
                     THEN pc' = "done" /\ result' = end.value
                     ELSE pc' = "raised" /\ result' = NoResult
  /\ UNCHANGED <<hf_token, requests, op, args, template, locals, app_vars>>

\* the remote call ends; the rest of generate_summary / generate_cover_letter
remote_call_ends(outcome) ==
  /\ pc = "remote"
  /\ response' = outcome
  /\ LET end == IF op = "summary" THEN summary_try(template, outcome)
                ELSE cover_letter_try(template, outcome)
     IN  IF end.tag = "return"
           THEN pc' = "done" /\ result' = end.value
           ELSE pc' = "raised" /\ result' = NoResult
  /\ UNCHANGED <<hf_token, requests, op, args, template, posts, locals, app_vars>>

\* ResumeGeneratorEnhanced.ats_optimization_score
ats_optimization_score(resume_text, job_description) ==
  /\ pc = "idle"
  /\ op' = "ats"
  /\ args' = [resume_text |-> resume_text, job_description |-> job_description]
  /\ LET l == ats_call([hf_token |-> hf_token], requests, resume_text, job_description)
     IN  /\ locals' = l
         /\ result' = ATSScoreResult(l)
  /\ pc' = "done"
  /\ UNCHANGED <<hf_token, requests, template, posts, response, app_vars>>

\* the caller takes the result (or the exception); the generator is idle again
next_call ==
  /\ pc \in {"done", "raised"}
  /\ pc' = "idle"
  /\ op' = "none"
  /\ args' = NoArgs
  /\ template' = NoTemplate
  /\ posts' = 0
  /\ response' = NoResponse
  /\ result' = NoResult
  /\ locals' = NoLocals
  /\ UNCHANGED <<hf_token, requests, app_vars>>

Next ==
  \/ \E profile \in Profiles, job_description \in JobDescriptions,
        target_title \in TargetTitles, use_hf_api_if_available \in BOOLEAN :
       generate_summary(profile, job_description, target_title, use_hf_api_if_available)
  \/ \E data \in CoverLetterInputs, job_description \in JobDescriptions,
        tone \in Tones, use_hf_api_if_available \in BOOLEAN :
       generate_cover_letter(data, job_description, tone, use_hf_api_if_available)
  \/ \E outcome \in RemoteOutcomes : remote_call_ends(outcome)
  \/ \E resume_text \in ResumeTexts, job_description \in JobTexts :
       ats_optimization_score(resume_text, job_description)
  \/ next_call

Spec == Init /\ [][Next]_vars

-----------------------------------------------------------------------------
(* Sessions that call the cached generators at the same time *)

\* an activation that keeps its template in an attribute of the shared generator
frame_on_instance(s) == "s1"

\* template_summary / template_letter is a local variable: every activation
\* of generate_summary / generate_cover_letter has its own
frame(s) == s

\* arguments of the calls that run at the same time
ConcurrentProfiles == {profile \in Profiles : profile.years_experience # 8}

ConcurrentInputs == {data \in CoverLetterInputs : data.years_experience = 3}

ConcurrentResumes == {txt_table, txt_padded_table}

ConcurrentOutcomes ==
  {outcome \in RemoteOutcomes : outcome.kind \in {"post_raises", "bad_json"}}
  \cup {[kind |-> "json",
         data |-> JList(<<JDict(JStr(RemoteBody(MinLetterLen, FALSE)), Absent, Absent)>>)]}

\* page_resume_builder of session s calls resume_gen.generate_summary
session_generate_summary(s, profile, use_hf_api_if_available) ==
  /\ calls[s].pc = "idle"
  /\ LET template_summary == <<>> \o _generate_summary_template(profile, None, None)
         call == [op |-> "summary", response |-> NoResponse,
                  args |-> [profile |-> profile, job_description |-> None,
                            target_title |-> None,
                            use_hf_api_if_available |-> use_hf_api_if_available]]
     IN  /\ frames' = [frames EXCEPT ![frame(s)] = template_summary]
         /\ calls' = [calls EXCEPT ![s] =
              IF UsesRemote(use_hf_api_if_available)
                THEN call @@ [pc |-> "remote", result |-> NoResult]
                ELSE call @@ [pc |-> "done",
                              result |-> SummaryResult(template_summary, "template")]]
  /\ UNCHANGED <<hf_token, requests, session_state, call_vars>>

\* page_cover_letter of session s calls cover_gen.generate_cover_letter
session_generate_cover_letter(s, data, tone, use_hf_api_if_available) ==
  /\ calls[s].pc = "idle"
  /\ LET template_letter == <<>> \o _generate_cover_letter_template(data, None, tone)
         call == [op |-> "cover", response |-> NoResponse,
                  args |-> [data |-> data, job_description |-> None, tone |-> tone,
                            use_hf_api_if_available |-> use_hf_api_if_available]]
     IN  /\ frames' = [frames EXCEPT ![frame(s)] = template_letter]
         /\ calls' = [calls EXCEPT ![s] =
              IF UsesRemote(use_hf_api_if_available)
                THEN call @@ [pc |-> "remote", result |-> NoResult]
                ELSE call @@ [pc |-> "done",
                              result |-> CoverLetterResult(template_letter, "template")]]
  /\ UNCHANGED <<hf_token, requests, session_state, call_vars>>

\* the remote call of session s ends; the rest of its generate_* activation
session_remote_call_ends(s, outcome) ==
  /\ calls[s].pc = "remote"
  /\ LET kept == frames[frame(s)]
         end  == IF calls[s].op = "summary" THEN summary_try(kept, outcome)
                 ELSE cover_letter_try(kept, outcome)
     IN  calls' = [calls EXCEPT ![s] =
           [@ EXCEPT !.response = outcome,
                     !.pc = IF end.tag = "return" THEN "done" ELSE "raised",
                     !.result = IF end.tag = "return" THEN end.value ELSE NoResult]]
  /\ UNCHANGED <<hf_token, requests, frames, session_state, call_vars>>

\* page_ats_checker of session s calls resume_gen.ats_optimization_score
session_ats_optimization_score(s, resume_text, job_description) ==
  /\ calls[s].pc = "idle"
  /\ calls' = [calls EXCEPT ![s] =
       [pc |-> "done", op |-> "ats", response |-> NoResponse,
        args |-> [resume_text |-> resume_text, job_description |-> job_description],
        result |-> ATSScoreResult(ats_call([hf_token |-> hf_token], requests,
                                           resume_text, job_description))]]
  /\ UNCHANGED <<hf_token, requests, frames, session_state, call_vars>>

\* the page of session s shows the result (or the exception); the activation ends
session_shows_result(s) ==
  /\ calls[s].pc \in {"done", "raised"}
  /\ calls' = [calls EXCEPT ![s] = IdleCall]
  /\ frames' = [frames EXCEPT ![frame(s)] = NoTemplate]
  /\ UNCHANGED <<hf_token, requests, session_state, call_vars>>

ConcurrentNext ==
  \/ \E s \in Sessions, profile \in ConcurrentProfiles, use_hf_api_if_available \in BOOLEAN :
       session_generate_summary(s, profile, use_hf_api_if_available)
  \/ \E s \in Sessions, data \in ConcurrentInputs, use_hf_api_if_available \in BOOLEAN :
       session_generate_cover_letter(s, data, txt_warm, use_hf_api_if_available)
  \/ \E s \in Sessions, outcome \in ConcurrentOutcomes :
       session_remote_call_ends(s, outcome)
  \/ \E s \in Sessions, resume_text \in ConcurrentResumes :
       session_ats_optimization_score(s, resume_text, txt_jd_short)
  \/ \E s \in Sessions : session_shows_result(s)

ConcurrentSpec == Init /\ [][ConcurrentNext]_vars

-----------------------------------------------------------------------------
(* The experience and education lists of a session (page_resume_builder) *)

\* the sessions hold at most this many items in a list
MaxItems == 2

\* what the forms can hold at a submit
txt_analyst ==
  <<" ", "A", "n", "a", "l", "y", "s", "t", " ">>

txt_lead ==
  <<"L", "e", "a", "d">>

txt_ngo ==
  <<"N", "G", "O", " ">>

txt_bullets ==
  <<"B", "u", "i", "l", "t", " ", "\n", " ", "\n", " ", "L", "e", "d">>

txt_msc ==
  <<"M", "S", "c", " ">>

txt_uni ==
  <<"U", "n", "i">>

txt_year ==
  <<"2", "0", "2", "4">>

RoleTitles == {<<>>, txt_blank, txt_analyst, txt_lead}

Organizations == {<<>>, txt_ngo}

Degrees == {txt_blank, txt_msc}

Institutions == {<<>>, txt_uni}

\* [b.strip() for b in ex_bullets_raw.splitlines() if b.strip()]
bullets_of(ex_bullets_raw) ==
  LET split == splitlines(ex_bullets_raw)
      kept  == SelectSeq(Indices(split), LAMBDA k : Len(strip(split[k])) > 0)
  IN  <<>> \o [k \in DOMAIN kept |-> strip(split[kept[k]])]

\* ExperienceItem(...) of the add-experience branch
ExperienceItem(ex_title, ex_company, ex_bullets_raw) ==
  [title |-> strip(ex_title), company |-> strip(ex_company), start_date |-> txt_year,
   end_date |-> <<>>, location |-> <<>>, bullets |-> bullets_of(ex_bullets_raw)]

\* EducationItem(...) of the add-education branch
EducationItem(ed_degree, ed_inst) ==
  [degree |-> strip(ed_degree), institution |-> strip(ed_inst), year |-> txt_year,
   details |-> <<>>]

\* a removal that drops the last item whatever the index
pop_last(list, i) == SubSeq(list, 1, Len(list) - 1)

\* list.pop(i), i counted from 0: the list that remains
pop(list, i) ==
  <<>> \o [k \in 1..(Len(list) - 1) |-> IF k <= i THEN list[k] ELSE list[k + 1]]

\* submit of the experience form
add_experience(s, ex_title, ex_company, ex_bullets_raw) ==
  /\ Len(session_state[s].experience) < MaxItems
  /\ IF strip(ex_title) = <<>> \/ strip(ex_company) = <<>>
       THEN session_state' = session_state
       ELSE session_state' =
              [session_state EXCEPT ![s].experience =
                 Append(@, ExperienceItem(ex_title, ex_company, ex_bullets_raw))]
  /\ UNCHANGED <<hf_token, requests, calls, frames, call_vars>>

\* the button 'Remove Experience #i+1'
remove_experience(s, i) ==
  /\ i \in 0..(Len(session_state[s].experience) - 1)
  /\ session_state' = [session_state EXCEPT ![s].experience = pop(@, i)]
  /\ UNCHANGED <<hf_token, requests, calls, frames, call_vars>>

\* submit of the education form
add_education(s, ed_degree, ed_inst) ==
  /\ Len(session_state[s].education) < MaxItems
  /\ IF strip(ed_degree) = <<>> \/ strip(ed_inst) = <<>>
       THEN session_state' = session_state
       ELSE session_state' =
              [session_state EXCEPT ![s].education =
                 Append(@, EducationItem(ed_degree, ed_inst))]
  /\ UNCHANGED <<hf_token, requests, calls, frames, call_vars>>

\* the button 'Remove Education #i+1'
remove_education(s, i) ==
  /\ i \in 0..(Len(session_state[s].education) - 1)
  /\ session_state' = [session_state EXCEPT ![s].education = pop(@, i)]
  /\ UNCHANGED <<hf_token, requests, calls, frames, call_vars>>

SessionNext ==
  \/ \E s \in Sessions, ex_title \in RoleTitles, ex_company \in Organizations :
       add_experience(s, ex_title, ex_company, txt_bullets)
  \/ \E s \in Sessions, i \in 0..(MaxItems - 1) : remove_experience(s, i)
  \/ \E s \in Sessions, ed_degree \in Degrees, ed_inst \in Institutions :
       add_education(s, ed_degree, ed_inst)
  \/ \E s \in Sessions, i \in 0..(MaxItems - 1) : remove_education(s, i)

SessionSpec == Init /\ [][SessionNext]_vars

-----------------------------------------------------------------------------
(* Properties *)

\* a generator entry point has returned
GeneratorDone == pc = "done" /\ op \in {"summary", "cover"}

\* ... after a remote call
RemoteDone == GeneratorDone /\ response # NoResponse

AtsDone == pc = "done" /\ op = "ats"

\* the text of the returned SummaryResult / CoverLetterResult
ResultText == IF op = "summary" THEN result.summary ELSE result.cover_letter

\* the template text of the running call, computed again from its arguments
TemplateOfArgs ==
  IF op = "summary"
    THEN <<>> \o _generate_summary_template(args.profile, args.target_title,
                                            args.job_description)
    ELSE <<>> \o _generate_cover_letter_template(args.data, args.job_description,
                                                 args.tone)

\* the acceptance threshold of the running call
MinRemoteLen == IF op = "summary" THEN MinSummaryLen ELSE MinLetterLen

\* the response is a list whose first element is an object
IsGenerationList(r) ==
  /\ r.kind = "json"
  /\ r.data.type = "list"
  /\ Len(r.data.items) > 0
  /\ r.data.items[1].type = "dict"

\* the texts the response carries in its generated-text fields
CarriedTexts(r) ==
  IF IsGenerationList(r)
    THEN {v.text : v \in {w \in {r.data.items[1].generated_text,
                                 r.data.items[1].summary_text} : w.type = "str"}}
    ELSE {}

\* the text the helper hands back: the first non-empty field, when it is a text
RemoteText(r) ==
  LET hf == IF op = "summary" THEN _generate_summary_hf_api(r)
            ELSE _generate_cover_letter_hf_api(r)
  IN  IF hf.tag = "return" /\ hf.value.type = "str" THEN <<hf.value.text>> ELSE <<>>

\* three or more consecutive newline characters
HasTripleNewline(text) ==
  \E i \in 1..(Len(text) - 2) :
    text[i] = "\n" /\ text[i + 1] = "\n" /\ text[i + 2] = "\n"

\* C1: every ATSScoreResult carries an integer score with 0 <= score <= 100.
C1_ScoreInRange == AtsDone => result.score \in 0..100

\* a resume that earns every point: all keywords matched and all four checks passed
C1_Witness ==
  /\ AtsDone
  /\ result.score = 100
  /\ locals.base = KeywordPoints
  /\ locals.structure_points = 30

\* C2: when the job description yields a keyword, the matched and the missing
\* keywords before the 30/20 caps are disjoint and together are exactly the
\* job-description keywords.
C2_MatchedMissingPartition ==
  (AtsDone /\ Len(locals.jd_keywords) > 0) =>
    /\ Range(locals.matched) \cap Range(locals.missing) = {}
    /\ Range(locals.matched) \cup Range(locals.missing) = Range(locals.jd_keywords)

\* both parts are non-empty, and the resume holds keywords the job description lacks
C2_Witness ==
  /\ AtsDone
  /\ Len(locals.matched) > 0
  /\ Len(locals.missing) > 0
  /\ Range(locals.resume_keywords) \ Range(locals.jd_keywords) # {}

\* C3: a job description without keywords gives score 0, no matched and no
\* missing keyword and the one job-description note, whatever the resume; the
\* call returns.
C3_NoKeywordsResult ==
  /\ op = "ats" => pc # "raised"
  /\ (AtsDone /\ _extract_keywords(_normalize_text(args.job_description)) = <<>>) =>
       result = [score |-> 0, matched_keywords |-> <<>>, missing_keywords |-> <<>>,
                 notes |-> <<NoKeywordsNote>>]

\* a job description of stopwords only, against a resume that passes structural
\* checks and holds keywords
C3_Witness ==
  /\ AtsDone
  /\ args.job_description = txt_stopwords
  /\ Len(locals.resume_keywords) > 0
  /\ search_word("education", _normalize_text(args.resume_text))
  /\ _count_long_lines(args.resume_text, LongLineThreshold) = 0

\* C4: whatever the remote call produces, the generators return and no exception
\* reaches the caller; the returned text is the template text unless the
\* response carried a text of accepted length, which is then returned trimmed.
C4_RemoteNeverRaises ==
  /\ pc # "raised"
  /\ RemoteDone =>
       \/ ResultText = template
       \/ \E t \in CarriedTexts(response) :
            /\ TextLen(strip(t)) >= MinRemoteLen
            /\ ResultText = strip(t)

\* a number in the generated-text field: the call returns the template text
C4_Witness ==
  /\ RemoteDone
  /\ IsGenerationList(response)
  /\ response.data.items[1].generated_text = JNum(5)
  /\ ResultText = template
  /\ result.source = "template"

\* C5: generate_summary accepts a remote text iff its trimmed length is at least
\* 40; a rejected one gives the template tag and the template summary of the
\* same arguments.
C5_SummaryThreshold ==
  (RemoteDone /\ op = "summary" /\ RemoteText(response) # <<>>) =>
    LET trimmed == strip(RemoteText(response)[1])
    IN  IF TextLen(trimmed) >= 40
          THEN result = SummaryResult(trimmed, "huggingface_api")
          ELSE result = SummaryResult(TemplateOfArgs, "template")

\* a text of 39 characters inside white space (42 untrimmed) is rejected
C5_Witness ==
  /\ RemoteDone
  /\ op = "summary"
  /\ RemoteText(response) # <<>>
  /\ TextLen(RemoteText(response)[1]) > 40
  /\ TextLen(strip(RemoteText(response)[1])) = 39
  /\ result.source = "template"

\* C6: generate_cover_letter accepts a remote text iff its trimmed length is at
\* least 200; when it is rejected or the remote call fails, the result has the
\* template tag and the template letter of the same arguments and tone.
C6_LetterThreshold ==
  (RemoteDone /\ op = "cover") =>
    LET remote  == RemoteText(response)
        trimmed == strip(remote[1])
        failed  == _generate_cover_letter_hf_api(response).tag = "raise"
    IN  /\ (remote # <<>> /\ TextLen(trimmed) >= 200) =>
             result = CoverLetterResult(trimmed, "huggingface_api")
        /\ (failed \/ (remote # <<>> /\ TextLen(trimmed) < 200)) =>
             result = CoverLetterResult(TemplateOfArgs, "template")

\* a text of 199 characters inside white space (202 untrimmed) is rejected
C6_Witness ==
  /\ RemoteDone
  /\ op = "cover"
  /\ RemoteText(response) # <<>>
  /\ TextLen(RemoteText(response)[1]) > 200
  /\ TextLen(strip(RemoteText(response)[1])) = 199
  /\ result.source = "template"

\* C7 as stated: the provenance tag is `template` or `remote`, `remote` exactly
\* when an accepted remote text is returned.
C7_TagTemplateOrRemote ==
  GeneratorDone =>
    /\ result.source \in {"template", "remote"}
    /\ result.source = "remote" <=>
         /\ response # NoResponse
         /\ RemoteText(response) # <<>>
         /\ TextLen(strip(RemoteText(response)[1])) >= MinRemoteLen

\* C7: the provenance tag is `template` or `huggingface_api`, `huggingface_api`
\* exactly when an accepted remote text is returned.
C7_TagTemplateOrHuggingface ==
  GeneratorDone =>
    /\ result.source \in {"template", "huggingface_api"}
    /\ result.source = "huggingface_api" <=>
         /\ response # NoResponse
         /\ RemoteText(response) # <<>>
         /\ TextLen(strip(RemoteText(response)[1])) >= MinRemoteLen

\* an accepted remote cover letter
C7_Witness ==
  /\ RemoteDone
  /\ op = "cover"
  /\ result.source = "huggingface_api"
  /\ ResultText # template

\* C8: the returned text, template or accepted remote text, never holds three or
\* more consecutive newline characters.
C8_NoTripleNewline == GeneratorDone => ~HasTripleNewline(ResultText)

\* C9: a call issues at most one request; after the remote call ends, in failure
\* or with a rejected text, the call has returned the template result and has
\* sent no second request.
C9_AtMostOneRequest ==
  /\ posts \in {0, 1}
  /\ pc = "remote" => posts = 1
  /\ response # NoResponse =>
       /\ pc \in {"done", "raised"}
       /\ posts = 1
       /\ (\/ response.kind # "json"
           \/ RemoteText(response) = <<>>
           \/ TextLen(strip(RemoteText(response)[1])) < MinRemoteLen) =>
            result.source = "template"

\* the request timed out: one request, the template result
C9_Witness ==
  /\ RemoteDone
  /\ response = [kind |-> "post_raises", exc |-> "Timeout"]
  /\ posts = 1
  /\ result.source = "template"

\* C10: with use_hf_api_if_available false, an empty token or no HTTP client
\* library, the generators send no request and return the template text with the
\* template tag; ats_optimization_score never sends a request.
C10_NoRequestWithoutRemote ==
  /\ (op \in {"summary", "cover"}
      /\ (~args.use_hf_api_if_available \/ hf_token = "" \/ ~requests)) =>
       /\ pc = "done"
       /\ posts = 0
       /\ response = NoResponse
       /\ ResultText = TemplateOfArgs
       /\ result.source = "template"
  /\ op = "ats" => posts = 0 /\ response = NoResponse

\* a token and the flag are set, the library is missing: no request is sent
C10_Witness ==
  /\ GeneratorDone
  /\ args.use_hf_api_if_available
  /\ hf_token # ""
  /\ ~requests
  /\ posts = 0
  /\ result.source = "template"

\* the instance fields and the import state of another generator; stepping from
\* one configuration to the next visits all of Tokens \X BOOLEAN
OtherInstance ==
  IF requests THEN [hf_token |-> CHOOSE t \in Tokens : t # hf_token] ELSE [hf_token |-> hf_token]

OtherLibrary == ~requests

NormalizedTexts == {locals.resume_text_clean, locals.jd_clean}

\* normalizing t again changes nothing
IsNormalizeFixpoint(t) == (<<>> \o _normalize_text(t)) = t

\* no typographic apostrophe or dash; white space only as single inner spaces
IsCleanShape(t) ==
  /\ \A i \in DOMAIN t : t[i] \notin {RSQUO, NDASH, MDASH}
  /\ \A i \in DOMAIN t : IsSpace(t[i]) => t[i] = " " /\ i > 1 /\ i < Len(t)
  /\ \A i \in 1..(Len(t) - 1) : ~(t[i] = " " /\ t[i + 1] = " ")

\* C12 as stated: normalization is idempotent, and a normalized text holds no
\* upper-case letter, no typographic apostrophe or dash, no white space other
\* than single spaces and no leading or trailing space.
C12_NormalizedNoUpperCase ==
  AtsDone =>
    \A t \in NormalizedTexts :
      /\ IsNormalizeFixpoint(t)
      /\ \A i \in DOMAIN t : ~IsUpper(t[i])
      /\ IsCleanShape(t)

\* C12, amended: normalization is idempotent, and a normalized text holds none of
\* the letters A-Z (an upper-case letter that has no lower-case form is kept), no
\* typographic apostrophe or dash, no white space other than single spaces and
\* no leading or trailing space.
C12_NormalizedNoCasedUpper ==
  AtsDone =>
    \A t \in NormalizedTexts :
      /\ IsNormalizeFixpoint(t)
      /\ \A i \in DOMAIN t : t[i] \notin UpperLetters
      /\ IsCleanShape(t)

\* the resume with capitals, typographic characters, tabs and outer white space
\* was normalized: every replacement happened, the uncased capital is kept
C12_Witness ==
  /\ AtsDone
  /\ args.resume_text = txt_typographic
  /\ \E i \in DOMAIN args.resume_text : args.resume_text[i] \in UpperLetters
  /\ \E i \in DOMAIN args.resume_text : args.resume_text[i] = RSQUO
  /\ IsSpace(args.resume_text[1])
  /\ \E i \in DOMAIN locals.resume_text_clean : locals.resume_text_clean[i] = "'"
  /\ \E i \in DOMAIN locals.resume_text_clean : locals.resume_text_clean[i] = DSCAP
  /\ Len(locals.resume_text_clean) < Len(args.resume_text)

\* the lists _extract_keywords returned to the running call of ats_optimization_score
KeywordLists == {locals.resume_keywords, locals.jd_keywords}

\* C13: a list returned by _extract_keywords has at most 80 entries and no
\* duplicates, and every entry is a lower-case token of letters, hyphen, plus and
\* period that starts with a letter, has at least 3 characters and is not a
\* stopword.
C13_KeywordListShape ==
  AtsDone =>
    \A kw \in KeywordLists :
      /\ Len(kw) <= MaxKeywords
      /\ \A i, j \in DOMAIN kw : i # j => kw[i] # kw[j]
      /\ \A i \in DOMAIN kw :
           /\ Len(kw[i]) >= 3
           /\ kw[i][1] \in LowerLetters
           /\ \A c \in DOMAIN kw[i] : kw[i][c] \in LowerLetters \cup {"-", "+", "."}
           /\ Str(kw[i]) \notin stop

\* the resume holds more distinct keywords than are returned; the job description
\* holds capitals, a repeated keyword, a hyphenated keyword and stopwords
C13_Witness ==
  /\ AtsDone
  /\ args.resume_text = txt_large_resume
  /\ args.job_description = txt_jd_short
  /\ Len(locals.resume_keywords) = MaxKeywords
  /\ search_word("skills", locals.jd_clean)
  /\ search_word("and", locals.jd_clean)
  /\ locals.jd_keywords =
       << <<"s", "q", "l">>, <<"n", "e", "e", "d">>, <<"p", "y", "t", "h", "o", "n">>,
          <<"p", "o", "w", "e", "r", "-", "b", "i">> >>

\* the tokens of a normalized text that _extract_keywords counts (lines 326-327)
CountedTokens(text) ==
  LET found  == _word_re_findall(text)
      tokens == <<>> \o [k \in DOMAIN found |-> lower(found[k])]
  IN  SelectSeq(tokens, LAMBDA t : Len(t) >= 3 /\ Str(t) \notin stop)

\* number of occurrences, and place of the first occurrence, of w among the tokens
Frequency(tokens, w) == Cardinality({j \in DOMAIN tokens : tokens[j] = w})

FirstOccurrence(tokens, w) ==
  CHOOSE j \in DOMAIN tokens : tokens[j] = w /\ \A k \in 1..(j - 1) : tokens[k] # w

\* kw is the start of the ranking of the tokens: by decreasing frequency, equal
\* frequencies by first occurrence, cut after MaxKeywords entries
IsRankingOf(kw, tokens) ==
  LET freq  == <<>> \o [i \in DOMAIN kw |-> Frequency(tokens, kw[i])]
      first == <<>> \o [i \in DOMAIN kw |-> FirstOccurrence(tokens, kw[i])]
      rest  == Range(tokens) \ Range(kw)
      n     == Len(kw)
  IN  /\ Range(kw) \subseteq Range(tokens)
      /\ \A i, j \in DOMAIN kw :
           i < j => \/ freq[i] > freq[j]
                    \/ freq[i] = freq[j] /\ first[i] < first[j]
      /\ rest # {} => n = MaxKeywords
      /\ \A w \in rest :
           \/ freq[n] > Frequency(tokens, w)
           \/ freq[n] = Frequency(tokens, w) /\ first[n] < FirstOccurrence(tokens, w)

\* C14: the list returned by _extract_keywords is ordered by non-increasing
\* frequency and, at equal frequency, by first occurrence; of more than 80
\* distinct keywords it holds exactly the first 80 of that order.
C14_KeywordRanking ==
  AtsDone =>
    /\ IsRankingOf(locals.resume_keywords, CountedTokens(locals.resume_text_clean))
    /\ IsRankingOf(locals.jd_keywords, CountedTokens(locals.jd_clean))

\* the large resume: its last word occurs twice and comes first, the words after
\* the first 79 others are cut; in the job description the repeated keyword
\* precedes a keyword that occurs earlier
C14_Witness ==
  /\ AtsDone
  /\ args.resume_text = txt_large_resume
  /\ args.job_description = txt_jd_short
  /\ Cardinality(Range(CountedTokens(locals.resume_text_clean))) > MaxKeywords
  /\ Len(locals.resume_keywords) = MaxKeywords
  /\ locals.resume_keywords[1] = Word(VocabularySize)
  /\ locals.resume_keywords[2] = Word(1)
  /\ Word(MaxKeywords) \notin Range(locals.resume_keywords)
  /\ locals.jd_keywords[1] = <<"s", "q", "l">>
  /\ locals.jd_keywords[2] = <<"n", "e", "e", "d">>

\* list is the first `cap` strings of the set `full` in ascending order
IsLeastOf(list, full, cap) ==
  LET n == Len(list)
  IN  /\ Range(list) \subseteq full
      /\ n = (IF Cardinality(full) < cap THEN Cardinality(full) ELSE cap)
      /\ \A i \in 1..(n - 1) : StrLess(list[i], list[i + 1])
      /\ \A w \in full \ Range(list) : StrLess(list[n], w)

\* C15: matched_keywords is the first 30 and missing_keywords the first 20 of the
\* full matched and missing sets in ascending lexicographic order: strictly
\* increasing, at most 30 and 20 long, and no omitted keyword sorts before a
\* returned one.
C15_ListsSortedAndCapped ==
  AtsDone =>
    /\ IsLeastOf(result.matched_keywords,
                 Range(locals.resume_keywords) \cap Range(locals.jd_keywords), MatchedCap)
    /\ IsLeastOf(result.missing_keywords,
                 Range(locals.jd_keywords) \ Range(locals.resume_keywords), MissingCap)

\* more matched keywords than 30 and more missing keywords than 20
C15_Witness ==
  /\ AtsDone
  /\ Cardinality(Range(locals.resume_keywords) \cap Range(locals.jd_keywords)) > MatchedCap
  /\ Cardinality(Range(locals.jd_keywords) \ Range(locals.resume_keywords)) > MissingCap
  /\ Len(result.matched_keywords) = MatchedCap
  /\ Len(result.missing_keywords) = MissingCap

\* generate_summary has built its template summary
SummaryBuilt == op = "summary" /\ pc \in {"remote", "done", "raised"}

\* C16: the template summary ends with the fixed closing sentence; it holds the
\* 'Proven track record including:' clause exactly when the profile lists an
\* achievement; without a job description it holds no 'Experienced in' clause.
C16_SummaryClauses ==
  SummaryBuilt =>
    /\ Len(template) > 0
    /\ template[Len(template)] =
         "Strong communicator with a focus on quality, timeliness, and stakeholder collaboration."
    /\ ("Proven track record including:" \in Range(template))
         <=> (Len(args.profile.achievements) > 0)
    /\ ~IsTruthy(args.job_description) => "Experienced in" \notin Range(template)

\* achievements and no job description: the achievement clause, no hint clause
C16_Witness ==
  /\ SummaryBuilt
  /\ Len(args.profile.achievements) > 0
  /\ args.job_description = None
  /\ "Proven track record including:" \in Range(template)
  /\ "Experienced in" \notin Range(template)

\* generate_cover_letter has built its template letter
LetterBuilt == op = "cover" /\ pc \in {"remote", "done", "raised"}

\* s occurs in t as a run of consecutive pieces
IsInfix(s, t) == \E i \in 0..(Len(t) - Len(s)) : SubSeq(t, i + 1, i + Len(s)) = s

\* the text a without the periods at its end
WithoutTrailingPeriods(a) ==
  LET cut == CHOOSE n \in 0..Len(a) :
               /\ n = 0 \/ a[n] # "."
               /\ \A i \in (n + 1)..Len(a) : a[i] = "."
  IN  SubSeq(a, 1, cut)

\* the achievement clause the letter is to hold, by the number of achievements
HighlightClause(achievements) ==
  IF Len(achievements) = 0 THEN <<>>
  ELSE IF Len(achievements) = 1
    THEN <<"One highlight includes", " ">>
         \o WithoutTrailingPeriods(achievements[1]) \o <<".">>
  ELSE <<"Key highlights include", " ">>
       \o WithoutTrailingPeriods(achievements[1])
       \o <<" ", "and", " ">>
       \o WithoutTrailingPeriods(achievements[2]) \o <<".">>

HasDoublePeriod(text) == \E i \in 1..(Len(text) - 1) : text[i] = "." /\ text[i + 1] = "."

\* C17: the achievement clause of the template letter follows the number of
\* achievements: none, no clause; one, 'One highlight includes X.'; two or more,
\* 'Key highlights include X and Y.' from the first two only; X and Y come
\* without their trailing periods, so the clause holds no '..'.
C17_HighlightClause ==
  LetterBuilt =>
    LET achievements == args.data.key_achievements
        clause       == HighlightClause(achievements)
    IN  /\ IsInfix(clause, template)
        /\ ~HasDoublePeriod(clause)
        /\ ("One highlight includes" \in Range(template)) <=> (Len(achievements) = 1)
        /\ ("Key highlights include" \in Range(template)) <=> (Len(achievements) >= 2)
        /\ \A k \in 3..Len(achievements) : ~IsInfix(achievements[k], template)

\* three achievements, the first ending in two periods: the clause names the
\* first two, without the periods
C17_Witness ==
  /\ LetterBuilt
  /\ Len(args.data.key_achievements) = 3
  /\ HasDoublePeriod(args.data.key_achievements[1])
  /\ "Key highlights include" \in Range(template)
  /\ IsInfix(<<"%", " ", "and", " ", "L", "e", "d">>, template)
  /\ IsInfix(<<"a", "u", "d", "i", "t", "s", ".", " ", "I am proficient with tools such as">>,
             template)

\* the three tone closing sentences
EnergySentence ==
  <<"I", RSQUO, "d welcome the chance to bring my energy and commitment to your team.">>

OutcomesSentence ==
  <<"I am confident I can deliver immediate value and measurable outcomes in this position.">>

GenericSentence ==
  <<"I would welcome the opportunity to support your team and deliver measurable results.">>

\* the tone sentences the template letter holds
ToneSentencesHeld ==
  {s \in {EnergySentence, OutcomesSentence, GenericSentence} : IsInfix(s, template)}

\* the sentence the policy selects for a tone name
SentenceFor(name) ==
  IF name \in {"warm", "friendly"} THEN EnergySentence
  ELSE IF name \in {"confident", "assertive"} THEN OutcomesSentence
  ELSE GenericSentence

\* C18 as stated: the letter holds exactly one tone sentence, chosen by the tone
\* value: warm or friendly, the energy sentence; confident or assertive, the
\* measurable-outcomes sentence; every other value, the generic sentence.
C18_ToneByExactValue ==
  LetterBuilt => ToneSentencesHeld = {SentenceFor(Str(args.tone))}

\* C18, amended: the letter holds exactly one tone sentence, chosen by the tone
\* value in lower case: a value that is warm, friendly, confident or assertive
\* in any mix of cases selects as that word does, every other value selects the
\* generic sentence.
C18_ToneIgnoringCase ==
  LetterBuilt => ToneSentencesHeld = {SentenceFor(Str(lower(args.tone)))}

\* the tone 'Warm', with a capital, selected the energy sentence
C18_Witness ==
  /\ LetterBuilt
  /\ args.tone = txt_warm
  /\ Str(args.tone) # "warm"
  /\ ToneSentencesHeld = {EnergySentence}

\* m matched keywords of n distinct job-description keywords
MatchedCount == Len(locals.matched)

JobKeywordCount == Cardinality(Range(locals.jd_keywords))

\* C19: with m matched of n >= 1 job-description keywords, the keyword component
\* b of the score is an integer in 0..70 with |b - 70*m/n| <= 1/2; b = 0 when
\* m = 0 and b = 70 when m = n.
C19_KeywordComponent ==
  (AtsDone /\ JobKeywordCount >= 1) =>
    LET b == locals.base
        d == 2 * (b * JobKeywordCount - KeywordPoints * MatchedCount)
    IN  /\ b \in 0..KeywordPoints
        /\ d <= JobKeywordCount
        /\ 0 - d <= JobKeywordCount
        /\ MatchedCount = 0 => b = 0
        /\ MatchedCount = JobKeywordCount => b = KeywordPoints

\* one keyword of four matched: 17.5 is rounded to 18
C19_Witness ==
  /\ AtsDone
  /\ JobKeywordCount = 4
  /\ MatchedCount = 1
  /\ locals.base = 18

\* the four structural checks on the resume of the running call
AllSectionsPresent ==
  LET checks == section_checks(locals.resume_text_clean)
  IN  \A k \in DOMAIN checks : checks[k][2]

NoLongLine ==
  LET lines == splitlines(args.resume_text)
  IN  \A k \in DOMAIN lines : Len(lines[k]) <= LongLineThreshold

LowSymbolDensity ==
  LET text    == args.resume_text
      symbols == Cardinality({i \in DOMAIN text :
                                text[i] \notin Whitespace
                                  \cup LowerLetters \cup UpperLetters \cup Digits \cup {DSCAP}})
  IN  Len(text) = 0 \/ DensityLimitDen * symbols < DensityLimitNum * Len(text)

WordCountInRange ==
  LET word_count == Len(_word_re_findall(args.resume_text))
  IN  MinWords <= word_count /\ word_count <= MaxWords

Points(passed, points) == IF passed THEN points ELSE 0

StructuralBonus ==
  Points(AllSectionsPresent, SectionPoints) + Points(NoLongLine, LineLengthPoints)
    + Points(LowSymbolDensity, SymbolPoints) + Points(WordCountInRange, WordCountPoints)

\* C20: for a job description with a keyword, the structural bonus is 10 for all
\* three section headings, plus 8 for no line over 120 characters, plus 6 for a
\* symbol density below 0.06, plus 6 for a word count in 250..950, each check
\* on its own; the score is the keyword component plus the bonus, which the
\* minimum with 100 never cuts.
C20_StructuralBonus ==
  (AtsDone /\ JobKeywordCount >= 1) =>
    /\ locals.structure_points = StructuralBonus
    /\ result.score = locals.base + StructuralBonus
    /\ locals.base + StructuralBonus <= MaxScore

\* a table: no headings, many symbols and few words, but no long line; the 8
\* points of the line check are earned alone and added to the keyword component
C20_Witness ==
  /\ AtsDone
  /\ JobKeywordCount >= 1
  /\ ~AllSectionsPresent
  /\ NoLongLine
  /\ ~LowSymbolDensity
  /\ ~WordCountInRange
  /\ locals.base > 0
  /\ locals.structure_points = LineLengthPoints
  /\ result.score = locals.base + LineLengthPoints

\* the names of the section headings the resume lacks, in the order of the checks
MissingSections ==
  LET checks == section_checks(locals.resume_text_clean)
      failed == SelectSeq(checks, LAMBDA c : ~c[2])
  IN  <<>> \o [k \in DOMAIN failed |-> failed[k][1]]

\* the first piece of each kind of note, in the order of the checks, with the
\* outcome of its check
NoteLeads ==
  << <<"Missing common section headings:", AllSectionsPresent>>,
     <<"Found", NoLongLine>>,
     <<"High symbol density detected. Avoid heavy tables/graphics for ATS-friendly resumes.",
       LowSymbolDensity>>,
     <<"Resume word count is", WordCountInRange>> >>

\* the leads of the notes due: one per failed check
LeadsDue ==
  LET failed == SelectSeq(NoteLeads, LAMBDA c : ~c[2])
  IN  <<>> \o [k \in DOMAIN failed |-> failed[k][1]]

\* the leads of the notes returned
LeadsReturned == <<>> \o [k \in DOMAIN result.notes |-> result.notes[k][1]]

\* C21: for a job description with a keyword, the notes are one note per failed
\* structural check in the order headings, line length, symbol density, word
\* count; the headings note names exactly the missing headings; the list is the
\* one default note exactly when no check failed, and is never empty.
C21_NotesPerFailedCheck ==
  (AtsDone /\ JobKeywordCount >= 1) =>
    /\ Len(result.notes) >= 1
    /\ (result.notes = <<DefaultNote>>) <=> (LeadsDue = <<>>)
    /\ (LeadsDue = <<>>)
         <=> (StructuralBonus = SectionPoints + LineLengthPoints + SymbolPoints + WordCountPoints)
    /\ LeadsDue # <<>> => LeadsReturned = LeadsDue
    /\ \A k \in DOMAIN result.notes :
         result.notes[k][1] = "Missing common section headings:" =>
           result.notes[k] =
             <<"Missing common section headings:", " ">>
               \o Join(<<",", " ">>, [i \in DOMAIN MissingSections |-> <<MissingSections[i]>>])
               \o <<".">>

\* a resume with a work-history heading only, few words: the headings note names
\* education and skills, and the word-count note follows it
C21_Witness ==
  /\ AtsDone
  /\ JobKeywordCount >= 1
  /\ MissingSections = <<"education", "skills">>
  /\ LeadsReturned = <<"Missing common section headings:", "Resume word count is">>

\* C22: the symbol-density check and the word-count check are decided on the
\* normalized resume text, so the outcome a resume receives is the outcome of
\* its normalized form (which is a resume with the same normalized form).
C22_ChecksOnNormalizedText ==
  (AtsDone /\ JobKeywordCount >= 1) =>
    LET clean      == locals.resume_text_clean
        word_count == Len(_word_re_findall(clean))
        density_note ==
          <<"High symbol density detected. Avoid heavy tables/graphics for ATS-friendly resumes.">>
    IN  /\ (density_note \notin Range(result.notes))
             <=> _symbol_density_below(clean, DensityLimitNum, DensityLimitDen)
        /\ ("Resume word count is" \notin Range(LeadsReturned))
             <=> (MinWords <= word_count /\ word_count <= MaxWords)

\* the opening of a summary whose effective title is t
OpeningWith(t) ==
  strip(t \o <<" ", "with", " ">> \o IntStr(args.profile.years_experience))

\* C23: the template summary opens with the trimmed target title whenever the
\* target_title argument is a non-empty string, a whitespace-only one included
\* (the opening then has no title at all), and with the trimmed profile title
\* only when the argument is None or the empty string.
C23_EffectiveTitle ==
  SummaryBuilt =>
    LET supplied == args.target_title # None /\ args.target_title[1] # <<>>
        t == IF supplied THEN strip(args.target_title[1]) ELSE strip(args.profile.title)
    IN  /\ Prefix(template, Len(OpeningWith(t))) = OpeningWith(t)
        /\ (supplied /\ t = <<>>) => template[1] = "with"

C23_Witness ==
  /\ SummaryBuilt
  /\ args.target_title = Some(txt_blank)
  /\ strip(args.profile.title) # <<>>
  /\ template[1] = "with"

\* the fixed pieces of the template summary, in the order of its clauses
SummaryLeads ==
  <<"+ years of experience delivering measurable results.",
    "Skilled in", "Tools:", "Industry exposure:",
    "Proven track record including:", "Experienced in",
    "Strong communicator with a focus on quality, timeliness, and stakeholder collaboration.">>

\* the clause `lead` of the summary lists the first `cap` items and no other
ListClauseOf(lead, items, cap) ==
  LET shown  == IF Len(items) < cap THEN Len(items) ELSE cap
      listed == _cleanup_spaces(Join(<<",", " ">>, SubSeq(items, 1, shown)))
  IN  /\ (lead \in Range(template)) <=> (listed # <<>>)
      /\ listed # <<>> => IsInfix(<<lead, " ">> \o listed \o <<".", " ">>, template)
      /\ \A i \in (cap + 1)..Len(items) : ~IsInfix(items[i], template)

\* the fixed pieces the summary holds stand in the order of SummaryLeads, the
\* first and the last always, and every white space is a single inner space
SummaryShape ==
  /\ LET at == [k \in DOMAIN SummaryLeads |->
                   {p \in DOMAIN template : template[p] = SummaryLeads[k]}]
     IN  \A i, j \in DOMAIN SummaryLeads :
           i < j => \A p \in at[i], q \in at[j] : p < q
  /\ SummaryLeads[1] \in Range(template)
  /\ template[Len(template)] = SummaryLeads[Len(SummaryLeads)]
  /\ \A i \in DOMAIN template : IsSpace(template[i]) => template[i] = " " /\ i > 1
  /\ \A i \in 1..(Len(template) - 1) : ~(template[i] = " " /\ template[i + 1] = " ")

\* C24 as stated: the clauses of the template summary stand in the fixed order,
\* hold at most 8 skills, 6 tools and 4 industries, the result has no leading,
\* trailing or doubled white space, and each list clause is present exactly
\* when its list is non-empty.
C24_ClauseIffListNonEmpty ==
  SummaryBuilt =>
    /\ SummaryShape
    /\ ("Skilled in" \in Range(template)) <=> (Len(args.profile.core_skills) > 0)
    /\ ("Tools:" \in Range(template)) <=> (Len(args.profile.tools) > 0)
    /\ ("Industry exposure:" \in Range(template)) <=> (Len(args.profile.industries) > 0)

\* C24: the clauses of the template summary stand in the fixed order; the
\* 'Skilled in', 'Tools:' and 'Industry exposure:' clauses list the first 8, 6
\* and 4 items and nothing beyond, and each is present exactly when the
\* comma-joined text of those items is non-empty after trimming (a list whose
\* only item is blank gives no clause); the result has no leading, trailing
\* or doubled white space.
C24_ClauseIffListedTextNonEmpty ==
  SummaryBuilt =>
    /\ SummaryShape
    /\ ListClauseOf("Skilled in", args.profile.core_skills, 8)
    /\ ListClauseOf("Tools:", args.profile.tools, 6)
    /\ ListClauseOf("Industry exposure:", args.profile.industries, 4)

C24_Witness ==
  /\ SummaryBuilt
  /\ Len(args.profile.core_skills) > 8
  /\ Len(args.profile.tools) > 6
  /\ Len(args.profile.industries) > 4
  /\ IsInfix(args.profile.industries[4] \o <<".">>, template)
  /\ "Experienced in" \in Range(template)

C24_WitnessBlankItem ==
  /\ SummaryBuilt
  /\ args.profile.tools = <<txt_blank>>
  /\ "Tools:" \notin Range(template)

\* the job-description keywords, in rank order, that equal no core skill of the
\* profile when case is ignored
KeywordsBeyondSkills ==
  LET skills == args.profile.core_skills
  IN  SelectSeq(_extract_keywords(_normalize_text(args.job_description[1])),
                LAMBDA k : \A i \in DOMAIN skills : lower(skills[i]) # lower(k))

\* C25: with a job description the 'Experienced in' clause of the template
\* summary lists, in rank order, the first 4 keywords of the job description
\* that equal no core skill when case is ignored; it is left out when no such
\* keyword remains.
C25_ExperiencedInClause ==
  (SummaryBuilt /\ IsTruthy(args.job_description)) =>
    LET rest  == KeywordsBeyondSkills
        terms == SubSeq(rest, 1, IF Len(rest) < 4 THEN Len(rest) ELSE 4)
    IN  /\ ("Experienced in" \in Range(template)) <=> (rest # <<>>)
        /\ rest # <<>> =>
              IsInfix(<<" ", "Experienced in", " ">> \o Join(<<",", " ">>, terms)
                        \o <<".", " ", SummaryLeads[Len(SummaryLeads)]>>,
                      template)

C25_Witness ==
  /\ SummaryBuilt
  /\ args.job_description = Some(txt_jd_long)
  /\ txt_sql \in Range(args.profile.core_skills)
  /\ Len(KeywordsBeyondSkills) = 5
  /\ IsInfix(<<"Experienced in", " ", "n", "e", "e", "d", ",", " ", "a", "n", "a", "l",
               "y", "s", "t", ",", " ", "k", "o", "b", "o", ",", " ", "s", "u", "r", "v",
               "e", "y", ".", " ">>, template)

C25_WitnessOmitted ==
  /\ SummaryBuilt
  /\ args.job_description = Some(txt_jd_forty)
  /\ KeywordsBeyondSkills = <<>>
  /\ "Experienced in" \notin Range(template)

\* the number of characters of t between its first and its last character
\* that is not white space
TrimmedLength(t) ==
  LET inked == {i \in DOMAIN t : ~IsSpace(t[i])}
  IN  IF inked = {} THEN 0
      ELSE (CHOOSE i \in inked : \A j \in inked : j <= i)
           - (CHOOSE i \in inked : \A j \in inked : i <= j) + 1

\* the sentence of the opening paragraph about the reviewed requirements
Acknowledgment ==
  "I have reviewed the role requirements and can align my experience to the key priorities outlined."

\* C26: the opening paragraph of the template letter holds the acknowledgment
\* of the reviewed requirements exactly when a job description of more than 40
\* characters after trimming was supplied; its capabilities sentence lists the
\* first 10 key skills and none beyond, or 'delivering high-quality results'
\* when there is no key skill.
C26_OpeningParagraph ==
  LetterBuilt =>
    LET key_skills == args.data.key_skills
        shown      == IF Len(key_skills) < 10 THEN Len(key_skills) ELSE 10
        listed     == _cleanup_spaces(Join(<<",", " ">>, SubSeq(key_skills, 1, shown)))
        lead       == "+ years of experience, I have developed strong capabilities in"
    IN  /\ (Acknowledgment \in Range(template))
             <=> (/\ args.job_description # None
                  /\ TrimmedLength(args.job_description[1]) > 40)
        /\ Acknowledgment \in Range(template) =>
              IsInfix(args.data.company_name \o <<".", " ", Acknowledgment, " ", "With", " ">>,
                      template)
        /\ key_skills = <<>> =>
              IsInfix(<<lead, " ", "delivering high-quality results", ".", "\n", "\n">>, template)
        /\ listed # <<>> =>
              /\ IsInfix(<<lead, " ">> \o listed \o <<".", "\n", "\n">>, template)
              /\ "delivering high-quality results" \notin Range(template)
        /\ \A i \in 11..Len(key_skills) : ~IsInfix(key_skills[i], template)

C26_Witness ==
  /\ LetterBuilt
  /\ args.job_description # None
  /\ TrimmedLength(args.job_description[1]) = 41
  /\ Acknowledgment \in Range(template)
  /\ Len(args.data.key_skills) > 10
  /\ IsInfix(args.data.key_skills[10] \o <<".", "\n">>, template)

C26_WitnessForty ==
  /\ LetterBuilt
  /\ args.job_description # None
  /\ TrimmedLength(args.job_description[1]) = 40
  /\ Len(args.job_description[1]) > 40
  /\ Acknowledgment \notin Range(template)
  /\ "delivering high-quality results" \in Range(template)

\* the piece that opens the third paragraph of the template letter
PreviousRoles ==
  "In previous roles, I have consistently supported performance and outcomes through quality delivery, collaboration, and data-informed decision-making."

\* the paragraph p stands in the letter between the opening paragraph and the
\* paragraph about previous roles
IsMotivationParagraph(p) ==
  IsInfix(<<".", "\n", "\n">> \o p \o <<"\n", "\n", PreviousRoles>>, template)

\* the fallback sentence of the motivation paragraph
MotivationFallback ==
  <<"I", RSQUO, "m excited about the opportunity to contribute to", " ">>
    \o args.data.company_name \o <<" ", "in this role.">>

\* C27 as stated: the motivation paragraph of the template letter is the
\* supplied motivation with its ends trimmed and its interior characters,
\* spacing and line breaks unchanged, or the fallback sentence naming the
\* company when the motivation is blank.
C27_MotivationVerbatim ==
  LetterBuilt =>
    IF strip(args.data.motivation) # <<>>
      THEN IsMotivationParagraph(strip(args.data.motivation))
      ELSE IsMotivationParagraph(MotivationFallback)

\* C27: the motivation paragraph of the template letter is the supplied
\* motivation after trimming and the final clean-up of the letter (in each
\* line runs of white space become one space and the ends are trimmed, three
\* or more line breaks become two), so its characters other than white space
\* are those supplied, in order; when the motivation is blank the paragraph is
\* the fallback sentence naming the company.
C27_MotivationCleaned ==
  LetterBuilt =>
    LET supplied == strip(args.data.motivation)
        cleaned  == _cleanup_spaces_preserve_paragraphs(supplied)
    IN  IF supplied # <<>>
          THEN /\ IsMotivationParagraph(cleaned)
               /\ SelectSeq(cleaned, LAMBDA c : ~IsSpace(c))
                    = SelectSeq(supplied, LAMBDA c : ~IsSpace(c))
               /\ ~IsInfix(<<" ", " ">>, cleaned)
               /\ ~IsInfix(<<"\n", "\n", "\n">>, cleaned)
               /\ "m excited about the opportunity to contribute to" \notin Range(template)
          ELSE IsMotivationParagraph(MotivationFallback)

C27_Witness ==
  /\ LetterBuilt
  /\ IsInfix(<<" ", " ">>, strip(args.data.motivation))
  /\ IsInfix(<<"\n", "\n", "\n">>, strip(args.data.motivation))
  /\ IsMotivationParagraph(_cleanup_spaces_preserve_paragraphs(args.data.motivation))
  /\ ~IsMotivationParagraph(strip(args.data.motivation))

C27_WitnessFallback ==
  /\ LetterBuilt
  /\ args.data.motivation = <<>>
  /\ IsMotivationParagraph(MotivationFallback)

\* C28: a keyword reported as missing is no token of the normalized resume
\* text, however many distinct tokens the resume holds.
C28_MissingNeverInResume ==
  (AtsDone /\ JobKeywordCount >= 1) =>
    LET tokens == Range(_word_re_findall(locals.resume_text_clean))
    IN  \A i \in DOMAIN result.missing_keywords :
          result.missing_keywords[i] \notin tokens

\* the result of the call c when it runs with no other call beside it
ResultAlone(c) ==
  IF c.op = "ats"
    THEN Returned(ATSScoreResult(ats_call([hf_token |-> hf_token], requests,
                                          c.args.resume_text, c.args.job_description)))
  ELSE IF c.op = "summary"
    THEN LET t == <<>> \o _generate_summary_template(c.args.profile, c.args.target_title,
                                                     c.args.job_description)
         IN  IF c.response = NoResponse THEN Returned(SummaryResult(t, "template"))
             ELSE summary_try(t, c.response)
  ELSE LET t == <<>> \o _generate_cover_letter_template(c.args.data, c.args.job_description,
                                                        c.args.tone)
       IN  IF c.response = NoResponse THEN Returned(CoverLetterResult(t, "template"))
           ELSE cover_letter_try(t, c.response)

\* every ended call has the outcome it has when it runs alone
CallsAsAlone ==
  \A s \in Sessions :
    /\ calls[s].pc = "done" =>
          ResultAlone(calls[s]) = Returned(calls[s].result)
    /\ calls[s].pc = "raised" => ResultAlone(calls[s]).tag = "raise"

\* C29: a step of a call on the cached generators changes no field of the
\* generator and no argument of a running call, and whatever the interleaving
\* of the calls of the sessions, every call ends with the result it has when
\* it runs alone.
C29_CallsDoNotInterfere ==
  /\ [][ /\ hf_token' = hf_token
         /\ requests' = requests
         /\ \A s \in Sessions :
               (calls[s].pc # "idle" /\ calls'[s].pc # "idle")
                 => calls'[s].args = calls[s].args ]_vars
  /\ []CallsAsAlone

C29_Witness ==
  /\ calls["s1"].pc = "done"
  /\ calls["s1"].response # NoResponse
  /\ calls["s1"].response.kind = "post_raises"
  /\ calls["s1"].result.source = "template"
  /\ calls["s2"].pc = "remote"
  /\ calls["s2"].args # calls["s1"].args
  /\ frames["s2"] # NoTemplate
  /\ frames["s1"] # frames["s2"]

\* the required fields of every item of every session are trimmed and not empty
ItemsValid ==
  \A s \in Sessions :
    /\ \A k \in DOMAIN session_state[s].experience :
         LET item == session_state[s].experience[k]
         IN  /\ item.title # <<>> /\ strip(item.title) = item.title
             /\ item.company # <<>> /\ strip(item.company) = item.company
    /\ \A k \in DOMAIN session_state[s].education :
         LET item == session_state[s].education[k]
         IN  /\ item.degree # <<>> /\ strip(item.degree) = item.degree
             /\ item.institution # <<>> /\ strip(item.institution) = item.institution

\* the list `after` is `before` without its item at position n (from 1)
IsWithout(after, before, n) ==
  /\ n \in DOMAIN before
  /\ Len(after) = Len(before) - 1
  /\ \A k \in DOMAIN after : after[k] = IF k < n THEN before[k] ELSE before[k + 1]

\* the list `after` is `before`, `before` with one item at its end, or
\* `before` without one item
KeepsOrder(after, before) ==
  \/ after = before
  \/ Len(after) = Len(before) + 1 /\ SubSeq(after, 1, Len(before)) = before
  \/ \E n \in DOMAIN before : IsWithout(after, before, n)

\* C30: in every session the items of the experience list have a trimmed
\* non-empty title and company and those of the education list a trimmed
\* non-empty degree and institution; a step keeps the order in which the items
\* were added; an add with a blank required field changes no list; a remove
\* deletes the item at the chosen index and nothing else.
C30_SessionLists ==
  /\ []ItemsValid
  /\ [][ \A s \in Sessions :
           /\ KeepsOrder(session_state'[s].experience, session_state[s].experience)
           /\ KeepsOrder(session_state'[s].education, session_state[s].education)
           /\ \A ex_title \in RoleTitles, ex_company \in Organizations :
                (/\ add_experience(s, ex_title, ex_company, txt_bullets)
                 /\ (strip(ex_title) = <<>> \/ strip(ex_company) = <<>>))
                  => session_state' = session_state
           /\ \A ed_degree \in Degrees, ed_inst \in Institutions :
                (/\ add_education(s, ed_degree, ed_inst)
                 /\ (strip(ed_degree) = <<>> \/ strip(ed_inst) = <<>>))
                  => session_state' = session_state
           /\ \A i \in 0..(MaxItems - 1) :
                /\ remove_experience(s, i) =>
                     /\ IsWithout(session_state'[s].experience,
                                  session_state[s].experience, i + 1)
                     /\ session_state'[s].education = session_state[s].education
                     /\ \A o \in Sessions \ {s} : session_state'[o] = session_state[o]
                /\ remove_education(s, i) =>
                     /\ IsWithout(session_state'[s].education,
                                  session_state[s].education, i + 1)
                     /\ session_state'[s].experience = session_state[s].experience
                     /\ \A o \in Sessions \ {s} : session_state'[o] = session_state[o]
        ]_vars

C30_Witness ==
  /\ Len(session_state["s1"].experience) = 2
  /\ session_state["s1"].experience[1].title = txt_lead
  /\ session_state["s1"].experience[2].title = strip(txt_analyst)
  /\ session_state["s1"].experience[2].bullets = <<<<"B", "u", "i", "l", "t">>, <<"L", "e", "d">>>>
  /\ Len(session_state["s1"].education) = 1
  /\ session_state["s2"].experience = <<>>

====
